---- MODULE Spec2Model ----
(***************************************************************************)
(* Telemetry-ingestion core of the EDR agent (agent/core-c).               *)
(*                                                                         *)
(* Part 1: the Transport Queue (collector/event_buffer.c), a single-       *)
(* producer / single-consumer ring of event records.  The producer         *)
(* (event_buffer_push) and the consumer (event_buffer_pop,                 *)
(* event_buffer_pop_batch) run on different threads, so each function is   *)
(* modelled one shared-memory access per action.  The memcpy of an event   *)
(* is not atomic: it is modelled as two separate field copies.             *)
(*                                                                         *)
(* Memory model: the code is Windows-only; the Interlocked* calls are full *)
(* barriers and the indices are volatile, so accesses are taken in program *)
(* order (sequentially consistent interleaving).                           *)
(***************************************************************************)
EXTENDS Integers, Sequences, FiniteSets, TLC

\* ---------------------------------------------------------------- bounds
\* Queue capacity (EVENT_BUFFER_SIZE, 4096 in event_buffer.h:32), scaled down.
EVENT_BUFFER_SIZE == 4
\* Number of event_buffer_push calls (valid arguments) the producer makes.
MaxPushCalls == 5
\* Largest max_count the consumer passes to event_buffer_pop_batch.
MaxBatch == 2
\* Handle Cache capacity (PROCESS_HANDLE_CACHE_SIZE, 256 in etw_process.h:35),
\* scaled down.
PROCESS_HANDLE_CACHE_SIZE == 2
\* Number of direct etw_get_process_handle calls.
MaxLookups == 4
\* Number of raw records delivered to etw_process_event_callback.
MaxRecords == 4
\* Number of raw records delivered while the consumer polls.
MaxStream == 2
\* Number of etw_session_start calls.
MaxStarts == 4
\* Number of edr_start_process_collector calls.
MaxCollectors == 2
\* The capacity passed to ring_buffer_create is 2^RingCapacityBits.
RingCapacityBits == 1
\* Width of the ring buffer indices (32 in ring_buffer.h:68), scaled down.
RingIndexBits == 2
\* Number of ring_buffer_push calls with an event.
MaxRingPushes == 5
\* Capacity of the module table (32 in module_manager.c:17), scaled down.
MAX_MODULES == 3
\* Number of event_buffer_get_stats calls the monitoring thread makes.
MaxStatsCalls == 1
\* Number of event_buffer_push calls made while the monitoring thread runs.
MaxMonitoredPushes == 2

\* ------------------------------------------------------- program constants
EDR_SUCCESS == 0
EDR_ERROR_INVALID_PARAM == -2
EDR_ERROR_BUFFER_FULL == -300
EDR_ERROR_BUFFER_EMPTY == -301
\* pid of the i-th test event is PidBase + i.
PidBase == 1000
\* The NULL handle.
NoHandle == 0
\* The NULL event pointer.
NoEvent == 0
EDR_ERROR_ETW_CREATE_FAILED == -101
EDR_ERROR_ETW_ENABLE_FAILED == -102
EDR_ERROR_ETW_START_FAILED == -103
EDR_ERROR_ETW_STOP_FAILED == -104
EDR_ERROR_ETW_ACCESS_DENIED == -105
\* Maximum number of automatic restarts.
ETW_MAX_RESTART_RETRY == 3
\* INVALID_PROCESSTRACE_HANDLE, what OpenTraceW returns on failure.
InvalidTraceHandle == -1
\* edr_process_event_type_t
EDR_PROCESS_START == 1
EDR_PROCESS_END == 2
\* edr_error_t
EDR_OK == 0
EDR_ERR_INVALID_PARAM == -2
EDR_ERR_NO_MEMORY == -3
EDR_ERR_UNKNOWN == -1
EDR_ERR_NOT_INITIALIZED == -4
EDR_ERR_ALREADY_INITIALIZED == -5

\* ------------------------------------------------------------------ state
VARIABLES
    \* event_buffer_t
    events, write_pos, read_pos, total_pushed, total_popped, dropped_count,
    peak_usage,
    \* producer thread: position in event_buffer_push, its argument and locals
    p_pc, p_event, current_write, next_write, usage, current_peak, p_ret,
    push_calls,
    \* consumer thread: position in event_buffer_pop / event_buffer_pop_batch,
    \* argument, locals, the caller's output array and the return value
    c_pc, max_count, count, current_read, out, c_ret,
    \* history: events whose push was published, events handed to the consumer,
    \* and whether no push was published since the current consumer call began
    accepted, returned, c_quiet

VARIABLES
    \* etw_process_consumer_t: the Handle Cache, its fill count, the counters,
    \* and whether the consumer exists (created and not yet destroyed)
    handle_cache, cache_used, total_events, parse_errors, consumer_live,
    \* operating system: the process handles that are open, how many were
    \* ever opened (handle values are 1, 2, ... in order of opening), the
    \* handles passed to CloseHandle in call order, how often OpenProcess
    \* was called, and the tick clock (GetTickCount64)
    open_handles, opened, close_log, open_calls, tick,
    \* the last etw_get_process_handle call: its pid argument and its result
    h_pid, h_ret,
    \* history: number of lookups made, whether all of them so far asked for
    \* pairwise distinct non-zero pids whose open succeeded, those pids in
    \* order, and for each pid the handle returned when it was last cached
    lookups, run_ok, run_pids, given,
    \* history: for each pid, the number of the last lookup that cached or
    \* hit it (0 if there was none)
    used_at

VARIABLES
    \* etw_process_event_callback: number of raw records delivered so far, the
    \* last one, the event the last callback built (its
    \* local, zero if the record was ignored), and the history of the last
    \* START record: the enrichment steps called and those that failed
    records, cb_record, cb_event, cb_attempted, cb_failed,
    \* history: timestamps of the records handed to event_buffer_push, in order
    delivered

VARIABLES
    \* etw_session_t: the fields start, stop and the consumption thread use
    session_handle, trace_handle, consume_thread, is_running, restart_count,
    callback,
    \* operating system: the kernel session registered under
    \* ETW_SESSION_NAME (0 if none) and how many were created, the trace
    \* handles that are open and how many were opened, the threads that run
    \* consume_thread_func, the thread handles that are open, how many
    \* threads were created, and the trace each thread processes
    os_session, sessions_created, open_traces, traces_opened, live_threads,
    thread_handles, threads_created, thread_trace,
    \* the caller: number of etw_session_start calls, the last call made,
    \* whether the session was running when it was made, its return value
    starts, s_op, s_was_running, s_ret,
    \* the caller: its position in etw_session_stop, the session and
    \* callback arguments of its last etw_session_start call (whether the
    \* session was NULL, the callback), and the operating system calls its
    \* last call made, in order, each with its result
    s_pc, s_null, s_cb, s_calls,
    \* the caller's use of the session so far: "started" after a successful
    \* start made on a stopped session, "stopped" initially, after a stop
    \* that returned EDR_SUCCESS and after a failed start made on a stopped
    \* session, "broken" once a start was made on a started session or a
    \* stop failed
    cycle,
    \* history of the consumption threads: how many returned abnormally, and
    \* whether one did so with restart_count below the maximum and the
    \* caller has made no call since
    abnormal_exits, restart_due

VARIABLES
    \* edr_core.c: the collectors handed out by edr_start_process_collector
    \* and not yet stopped, each with the fields of its own etw_session_t,
    \* by handle (handles are numbered in order of the calls)
    collectors,
    \* the caller: number of edr_start_process_collector calls, the last
    \* call made, its handle (the one written to *out_handle, 0 if none, or
    \* the one passed to stop) and its return value
    col_calls, col_op, col_handle, col_ret,
    \* history: whether a consumption thread wrote to the etw_session_t of a
    \* collector after it was freed
    freed_access

VARIABLES
    \* edr_ring_buffer_t: the slots (event pointers, NULL if empty) and the
    \* two 32-bit indices
    rb_slots, rb_head, rb_tail,
    \* producer thread: position in ring_buffer_push, its event argument,
    \* the head and tail it loaded, its return value, and the number of
    \* calls with an event made (the k-th call passes the event pointer k)
    push_pc, push_event, push_head, push_tail, push_ret, ring_pushes,
    \* consumer thread: position in ring_buffer_pop, the tail and head it
    \* loaded, the pointer it read from the slot, its return value
    pop_pc, pop_tail, pop_head, pop_event, pop_ret,
    \* history: the events whose push returned EDR_OK, and the events pop
    \* returned, both in order
    rb_accepted, rb_popped

VARIABLES
    \* g_manager of plugin/module_manager.c: the entries, the number of
    \* registered modules, and whether the manager is initialized
    g_modules, g_count, g_initialized,
    \* the last call of the module manager: its name, its name argument,
    \* its return value, and the module callbacks it made, in order, each
    \* as <<callback, module name, result>>
    m_op, m_arg, m_ret, m_calls

VARIABLES
    \* monitoring thread: position in event_buffer_get_stats, the values it
    \* stored through out_total_pushed, out_total_popped and out_dropped,
    \* the two indices event_buffer_get_usage read, the usage it derived,
    \* *out_usage_percent, and the number of calls made
    mon_pc, mon_pushed, mon_popped, mon_dropped, mon_w, mon_r, mon_usage,
    mon_percent, stats_calls,
    \* history: the largest number of events that were in the queue at one
    \* time since the call in progress began
    mon_max

sessVars == <<session_handle, trace_handle, consume_thread, is_running,
              restart_count, callback>>
etwVars == <<os_session, sessions_created, open_traces, traces_opened,
             live_threads, thread_handles, threads_created, thread_trace>>
callVars == <<starts, s_op, s_was_running, s_ret, s_pc, s_null, s_cb, s_calls,
              cycle>>
restartVars == <<abnormal_exits, restart_due>>
colVars == <<collectors, col_calls, col_op, col_handle, col_ret, freed_access>>
ringVars == <<rb_slots, rb_head, rb_tail, push_pc, push_event, push_head,
              push_tail, push_ret, ring_pushes, pop_pc, pop_tail, pop_head,
              pop_event, pop_ret, rb_accepted, rb_popped>>
cbVars == <<records, cb_record, cb_event, cb_attempted, cb_failed, delivered>>
cacheVars == <<handle_cache, cache_used, total_events, parse_errors,
               consumer_live>>
osVars == <<open_handles, opened, close_log, open_calls, tick>>
lookupVars == <<h_pid, h_ret, lookups, run_ok, run_pids, given, used_at>>
\* The variables of the session restarts, the collectors and the ring buffer.
mmVars == <<g_modules, g_count, g_initialized, m_op, m_arg, m_ret, m_calls>>
monVars == <<mon_pc, mon_pushed, mon_popped, mon_dropped, mon_w, mon_r,
             mon_usage, mon_percent, stats_calls>>
moreVars == <<mmVars, monVars, mon_max>>
restVars == <<restartVars, colVars, ringVars, moreVars>>
\* The variables outside the queue and its two threads, but for mon_max.
extVarsOfQueue == <<cacheVars, osVars, lookupVars, cbVars, sessVars, etwVars,
                   callVars, restartVars, colVars, ringVars, mmVars, monVars>>
extVars == <<cacheVars, osVars, lookupVars, cbVars, sessVars, etwVars,
            callVars, restVars>>

bufVars == <<events, write_pos, read_pos, total_pushed, total_popped,
             dropped_count, peak_usage>>
prodVars == <<p_pc, p_event, current_write, next_write, usage, current_peak,
              p_ret, push_calls>>
consVars == <<c_pc, max_count, count, current_read, out, c_ret>>
histVars == <<accepted, returned, c_quiet>>
vars == <<bufVars, prodVars, consVars, histVars, extVars>>

\* edr_process_event_t, reduced to two fields that are copied separately.
ZeroEvent == [timestamp |-> 0, pid |-> 0]
\* The i-th event the producer builds (event.timestamp = i, event.pid = base + i).
MkEvent(i) == [timestamp |-> i, pid |-> PidBase + i]

Slots == 0 .. (EVENT_BUFFER_SIZE - 1)
OutIdx == 0 .. (MaxBatch - 1)
ZeroOut == [i \in OutIdx |-> ZeroEvent]

\* edr_process_event_t after memset(out_event, 0, sizeof ...).  Paths are
\* sequences of components separated by '\\', the command line is a sequence
\* of words, the hash is a number (0 when all 32 bytes are zero).
ZeroProcessEvent ==
    [timestamp |-> 0, pid |-> 0, ppid |-> 0, process_name |-> "",
     executable_path |-> <<>>, command_line |-> <<>>, username |-> "",
     sha256 |-> 0, event_type |-> 0, exit_code |-> 0]

\* No raw record yet (EVENT_RECORD: header timestamp, pid, opcode; payload).
ZeroRecord == [timestamp |-> 0, pid |-> 0, opcode |-> 0, data |-> <<>>]

\* process_handle_cache_entry_t as etw_process_consumer_create leaves it.
ZeroEntry == [pid |-> 0, handle |-> NoHandle, last_access |-> 0]
CacheIdx == 0 .. (PROCESS_HANDLE_CACHE_SIZE - 1)
\* Process ids: 0 (rejected by the lookup) and one more live pid than the cache
\* can hold.
Pids == 0 .. (PROCESS_HANDLE_CACHE_SIZE + 1)

\* The NULL callback.
NoCallback == "NULL"

\* event_buffer_create: calloc, all indices and counters zero.
event_buffer_create ==
    /\ events = [s \in Slots |-> ZeroEvent]
    /\ write_pos = 0 /\ read_pos = 0
    /\ total_pushed = 0 /\ total_popped = 0 /\ dropped_count = 0
    /\ peak_usage = 0

\* No push, pop or pop_batch call is in progress and none was made.
ThreadsIdle ==
    /\ p_pc = "idle" /\ p_event = ZeroEvent /\ current_write = 0
    /\ next_write = 0 /\ usage = 0 /\ current_peak = 0 /\ p_ret = 0
    /\ push_calls = 0
    /\ c_pc = "idle" /\ max_count = 0 /\ count = 0 /\ current_read = 0
    /\ out = ZeroOut /\ c_ret = 0
    /\ accepted = <<>> /\ returned = <<>> /\ c_quiet = FALSE

\* etw_process_consumer_create: empty cache, zero counters; no handle was
\* opened, no lookup made and no record delivered yet.
etw_process_consumer_create ==
    /\ handle_cache = [i \in CacheIdx |-> ZeroEntry]
    /\ cache_used = 0 /\ total_events = 0 /\ parse_errors = 0
    /\ consumer_live = TRUE
    /\ open_handles = {} /\ opened = 0 /\ close_log = <<>>
    /\ open_calls = 0 /\ tick = 0
    /\ h_pid = 0 /\ h_ret = NoHandle
    /\ lookups = 0 /\ run_ok = TRUE /\ run_pids = <<>>
    /\ given = [p \in Pids |-> NoHandle]
    /\ used_at = [p \in Pids |-> 0]
    /\ records = 0 /\ cb_record = ZeroRecord /\ cb_event = ZeroProcessEvent
    /\ cb_attempted = {} /\ cb_failed = {} /\ delivered = <<>>

\* etw_session_init: zero handles, no callback, not running, no restart; the
\* system holds no session, trace or thread of this session yet.
etw_session_init ==
    /\ session_handle = 0 /\ trace_handle = 0 /\ consume_thread = NoHandle
    /\ is_running = 0 /\ restart_count = 0 /\ callback = NoCallback
    /\ os_session = 0 /\ sessions_created = 0
    /\ open_traces = {} /\ traces_opened = 0
    /\ live_threads = {} /\ thread_handles = {} /\ threads_created = 0
    /\ thread_trace = <<>>
    /\ starts = 0 /\ s_op = "none" /\ s_was_running = FALSE
    /\ s_ret = EDR_SUCCESS
    /\ s_pc = "idle" /\ s_null = FALSE /\ s_cb = NoCallback /\ s_calls = <<>>
    /\ cycle = "stopped"
    /\ abnormal_exits = 0 /\ restart_due = FALSE

\* rb->capacity and the mask capacity - 1.
capacity == 2 ^ RingCapacityBits
mask == capacity - 1
\* Number of values of a ring buffer index.
IndexRange == 2 ^ RingIndexBits

\* ring_buffer_create(capacity): all slots NULL, both indices zero; both
\* threads idle.
ring_buffer_create ==
    /\ rb_slots = [i \in 0 .. mask |-> NoEvent]
    /\ rb_head = 0 /\ rb_tail = 0
    /\ push_pc = "idle" /\ push_event = NoEvent /\ push_head = 0
    /\ push_tail = 0 /\ push_ret = EDR_OK /\ ring_pushes = 0
    /\ pop_pc = "idle" /\ pop_tail = 0 /\ pop_head = 0
    /\ pop_event = NoEvent /\ pop_ret = NoEvent
    /\ rb_accepted = <<>> /\ rb_popped = <<>>

\* edr_core_init has run and no collector was started yet.
edr_core_init ==
    /\ collectors = <<>> /\ col_calls = 0 /\ col_op = "none"
    /\ col_handle = 0 /\ col_ret = EDR_SUCCESS /\ freed_access = FALSE

\* A NULL name.
NoName == ""
\* The names modules are registered and looked up under.
ModuleNames == {"m1", "m2", "m3", "m4", "m5"}
\* A NULL edr_module_ops_t pointer.  An edr_module_ops_t is its name and,
\* for each callback, whether the pointer is set.
NoOps ==
    [null |-> TRUE, name |-> NoName, init |-> FALSE, start |-> FALSE,
     stop |-> FALSE, cleanup |-> FALSE]
\* A zeroed module_entry_t.
ZeroModule == [ops |-> NoOps, initialized |-> FALSE, running |-> FALSE]

\* static g_manager = {0}: the module manager before
\* edr_module_manager_init.
g_manager_zero ==
    /\ g_modules = [i \in 0 .. MAX_MODULES - 1 |-> ZeroModule]
    /\ g_count = 0 /\ g_initialized = FALSE
    /\ m_op = "none" /\ m_arg = NoName /\ m_ret = EDR_OK /\ m_calls = <<>>

\* The monitoring thread before its first call.
MonitorIdle ==
    /\ mon_pc = "idle" /\ mon_pushed = 0 /\ mon_popped = 0 /\ mon_dropped = 0
    /\ mon_w = 0 /\ mon_r = 0 /\ mon_usage = 0 /\ mon_percent = 0
    /\ stats_calls = 0 /\ mon_max = 0

\* The number of events in the queue when the indices are w and r.
Occupancy(w, r) == (w - r + EVENT_BUFFER_SIZE) % EVENT_BUFFER_SIZE

\* mon_max after a step that leaves the indices w and r, while a call of
\* the monitoring thread is in progress.
TrackOccupancy(w, r) ==
    mon_max' = IF mon_pc # "idle" /\ Occupancy(w, r) > mon_max
               THEN Occupancy(w, r) ELSE mon_max

\* The queue, the consumer and the session after construction.
Init ==
    /\ event_buffer_create
    /\ ThreadsIdle
    /\ etw_process_consumer_create
    /\ etw_session_init
    /\ edr_core_init
    /\ ring_buffer_create
    /\ g_manager_zero
    /\ MonitorIdle

\* Mutant: the comparison is strict, so equal indices count as a full array.
event_buffer_get_usage_strict(w, r) ==
    IF w > r THEN w - r ELSE EVENT_BUFFER_SIZE - r + w

\* event_buffer_get_usage, on the two index values it read.
event_buffer_get_usage(w, r) ==
    IF w >= r THEN w - r ELSE EVENT_BUFFER_SIZE - r + w

\* (pos + 1) % EVENT_BUFFER_SIZE
NextPos(pos) == (pos + 1) % EVENT_BUFFER_SIZE

\* Mutant: the full test is missing.
IsFullNever(nw, r) == FALSE

\* Mutant: the full test is made on current_write instead of next_write
\* (full when write_pos = read_pos, which is the empty queue).
IsFullLate(nw, r) == nw = (r + 1) % EVENT_BUFFER_SIZE

\* event_buffer_is_full / the full test of event_buffer_push.
IsFull(nw, r) == nw = r

\* Mutant: the empty test is missing.
IsEmptyNever(r, w) == FALSE

\* Mutant: the empty test is off by one (a queue holding one event is taken
\* for empty).
IsEmptyEarly(r, w) == r = w \/ (r + 1) % EVENT_BUFFER_SIZE = w

\* event_buffer_is_empty / the empty test of pop and pop_batch.
IsEmpty(r, w) == r = w

\* ------------------------------------------------------- event_buffer_push
\* Entry with a null buffer or event: nothing is touched.
PushInvalid ==
    /\ p_pc = "idle"
    /\ p_ret' = EDR_ERROR_INVALID_PARAM
    /\ UNCHANGED <<extVars, bufVars, consVars, histVars, p_pc, p_event, current_write,
                   next_write, usage, current_peak, push_calls>>

\* Entry with valid arguments: current_write, next_write (lines 71-72).
PushBegin ==
    /\ p_pc = "idle"
    /\ push_calls < MaxPushCalls
    /\ push_calls' = push_calls + 1
    /\ p_event' = MkEvent(push_calls + 1)
    /\ current_write' = write_pos
    /\ next_write' = NextPos(write_pos)
    /\ p_pc' = "check"
    /\ UNCHANGED <<extVars, bufVars, consVars, histVars, usage, current_peak, p_ret>>

\* The locals are dead after return.
PushLocalsReset ==
    /\ p_event' = ZeroEvent /\ current_write' = 0 /\ next_write' = 0
    /\ usage' = 0 /\ current_peak' = 0

\* Mutant: a dropped push is counted as pushed too.
PushFullCounted ==
    /\ p_pc = "check"
    /\ next_write = read_pos
    /\ dropped_count' = dropped_count + 1
    /\ total_pushed' = total_pushed + 1
    /\ p_ret' = EDR_ERROR_BUFFER_FULL
    /\ p_pc' = "idle"
    /\ PushLocalsReset
    /\ UNCHANGED <<extVars, events, write_pos, read_pos, total_popped,
                   peak_usage, consVars, histVars, push_calls>>

\* Full (line 76-80): count the drop, return.
PushFull ==
    /\ p_pc = "check"
    /\ IsFull(next_write, read_pos)
    /\ dropped_count' = dropped_count + 1
    /\ p_ret' = EDR_ERROR_BUFFER_FULL
    /\ p_pc' = "idle"
    /\ PushLocalsReset
    /\ UNCHANGED <<extVars, events, write_pos, read_pos, total_pushed, total_popped,
                   peak_usage, consVars, histVars, push_calls>>

\* Not full: go on to the copy.
PushCheck ==
    /\ p_pc = "check"
    /\ ~IsFull(next_write, read_pos)
    /\ p_pc' = "copy1"
    /\ UNCHANGED <<extVars, bufVars, consVars, histVars, p_event, current_write,
                   next_write, usage, current_peak, p_ret, push_calls>>

\* memcpy into events[current_write] (line 83), first part.
PushCopy1 ==
    /\ p_pc = "copy1"
    /\ events' = [events EXCEPT ![current_write].timestamp = p_event.timestamp]
    /\ p_pc' = "copy2"
    /\ UNCHANGED <<extVars, write_pos, read_pos, total_pushed, total_popped,
                   dropped_count, peak_usage, consVars, histVars, p_event,
                   current_write, next_write, usage, current_peak, p_ret,
                   push_calls>>

\* memcpy into events[current_write], second part.
PushCopy2 ==
    /\ p_pc = "copy2"
    /\ events' = [events EXCEPT ![current_write].pid = p_event.pid]
    /\ p_pc' = "publish"
    /\ UNCHANGED <<extVars, write_pos, read_pos, total_pushed, total_popped,
                   dropped_count, peak_usage, consVars, histVars, p_event,
                   current_write, next_write, usage, current_peak, p_ret,
                   push_calls>>

\* InterlockedExchange(&write_pos, next_write) (line 86): the push is accepted.
PushPublish ==
    /\ p_pc = "publish"
    /\ write_pos' = next_write
    /\ accepted' = Append(accepted, p_event)
    /\ c_quiet' = FALSE
    /\ p_pc' = "count"
    /\ TrackOccupancy(next_write, read_pos)
    /\ UNCHANGED <<extVarsOfQueue, events, read_pos, total_pushed, total_popped, dropped_count,
                   peak_usage, consVars, returned, p_event, current_write,
                   next_write, usage, current_peak, p_ret, push_calls>>

\* InterlockedIncrement64(&total_pushed) (line 89).
PushCount ==
    /\ p_pc = "count"
    /\ total_pushed' = total_pushed + 1
    /\ p_pc' = "usage"
    /\ UNCHANGED <<extVars, events, write_pos, read_pos, total_popped, dropped_count,
                   peak_usage, consVars, histVars, p_event, current_write,
                   next_write, usage, current_peak, p_ret, push_calls>>

\* usage = event_buffer_get_usage(buffer); current_peak = peak_usage
\* (lines 92-93).  write_pos and peak_usage are written by this thread only,
\* so the one shared read is that of read_pos.
PushUsage ==
    /\ p_pc = "usage"
    /\ usage' = event_buffer_get_usage(write_pos, read_pos)
    /\ current_peak' = peak_usage
    /\ p_pc' = "peak"
    /\ UNCHANGED <<extVars, bufVars, consVars, histVars, p_event, current_write,
                   next_write, p_ret, push_calls>>

\* while (usage > current_peak): InterlockedCompareExchange (lines 94-105).
PushPeakUpdate ==
    /\ p_pc = "peak"
    /\ usage > current_peak
    /\ IF peak_usage = current_peak
       THEN /\ peak_usage' = usage
            /\ p_ret' = EDR_SUCCESS
            /\ p_pc' = "idle"
            /\ PushLocalsReset
       ELSE /\ current_peak' = peak_usage
            /\ UNCHANGED <<peak_usage, p_ret, p_pc, p_event, current_write,
                           next_write, usage>>
    /\ UNCHANGED <<extVars, events, write_pos, read_pos, total_pushed, total_popped,
                   dropped_count, consVars, histVars, push_calls>>

\* The loop condition is false: return EDR_SUCCESS (line 107).
PushDone ==
    /\ p_pc = "peak"
    /\ ~(usage > current_peak)
    /\ p_ret' = EDR_SUCCESS
    /\ p_pc' = "idle"
    /\ PushLocalsReset
    /\ UNCHANGED <<extVars, bufVars, consVars, histVars, push_calls>>

\* The steps of a push call with valid arguments.
PushSteps ==
    \/ PushBegin
    \/ PushFull
    \/ PushCheck
    \/ PushCopy1
    \/ PushCopy2
    \/ PushPublish
    \/ PushCount
    \/ PushUsage
    \/ PushPeakUpdate
    \/ PushDone

PushNext == PushInvalid \/ PushSteps

\* -------------------------------------------------------- event_buffer_pop
\* Entry with a null buffer or out_event: nothing is touched.
PopInvalid ==
    /\ c_pc = "idle"
    /\ c_ret' = EDR_ERROR_INVALID_PARAM
    /\ UNCHANGED <<extVars, bufVars, prodVars, histVars, c_pc, max_count, count,
                   current_read, out>>

\* Entry with valid arguments; the caller's out_event starts zeroed
\* (edr_process_event_t popped = {0}).  current_read = read_pos (line 119).
PopBegin ==
    /\ c_pc = "idle"
    /\ out' = ZeroOut
    /\ current_read' = read_pos
    /\ c_quiet' = TRUE
    /\ c_pc' = "pop_check"
    /\ UNCHANGED <<extVars, bufVars, prodVars, accepted, returned, max_count, count,
                   c_ret>>

\* Empty (lines 123-125).
PopEmpty ==
    /\ c_pc = "pop_check"
    /\ IsEmpty(current_read, write_pos)
    /\ c_ret' = EDR_ERROR_BUFFER_EMPTY
    /\ c_pc' = "idle"
    /\ current_read' = 0
    /\ c_quiet' = FALSE
    /\ UNCHANGED <<extVars, bufVars, prodVars, accepted, returned, max_count, count,
                   out>>

\* Not empty: go on to the copy.
PopCheck ==
    /\ c_pc = "pop_check"
    /\ ~IsEmpty(current_read, write_pos)
    /\ c_pc' = "pop_copy1"
    /\ UNCHANGED <<extVars, bufVars, prodVars, histVars, max_count, count,
                   current_read, out, c_ret>>

\* memcpy(out_event, &events[current_read]) (line 128), first part.
PopCopy1 ==
    /\ c_pc = "pop_copy1"
    /\ out' = [out EXCEPT ![0].timestamp = events[current_read].timestamp]
    /\ c_pc' = "pop_copy2"
    /\ UNCHANGED <<extVars, bufVars, prodVars, histVars, max_count, count,
                   current_read, c_ret>>

\* memcpy(out_event, &events[current_read]), second part.
PopCopy2 ==
    /\ c_pc = "pop_copy2"
    /\ out' = [out EXCEPT ![0].pid = events[current_read].pid]
    /\ c_pc' = "pop_advance"
    /\ UNCHANGED <<extVars, bufVars, prodVars, histVars, max_count, count,
                   current_read, c_ret>>

\* InterlockedExchange(&read_pos, next_read) (lines 131-134).
PopAdvance ==
    /\ c_pc = "pop_advance"
    /\ read_pos' = NextPos(current_read)
    /\ c_pc' = "pop_count"
    /\ TrackOccupancy(write_pos, NextPos(current_read))
    /\ UNCHANGED <<extVarsOfQueue, events, write_pos, total_pushed, total_popped,
                   dropped_count, peak_usage, prodVars, histVars, max_count,
                   count, current_read, out, c_ret>>

\* The value event_buffer_pop returns after popping one event (line 139).
PopSuccessValue == 1

\* Mutant: the pop does not count itself in total_popped.
PopCountForgotten ==
    /\ c_pc = "pop_count"
    /\ c_ret' = PopSuccessValue
    /\ returned' = Append(returned, out[0])
    /\ c_pc' = "idle"
    /\ current_read' = 0
    /\ c_quiet' = FALSE
    /\ UNCHANGED <<extVars, bufVars, prodVars, accepted, max_count, count, out>>

\* InterlockedIncrement64(&total_popped); return (lines 137-139).
PopCount ==
    /\ c_pc = "pop_count"
    /\ total_popped' = total_popped + 1
    /\ c_ret' = PopSuccessValue
    /\ returned' = Append(returned, out[0])
    /\ c_pc' = "idle"
    /\ current_read' = 0
    /\ c_quiet' = FALSE
    /\ UNCHANGED <<extVars, events, write_pos, read_pos, total_pushed, dropped_count,
                   peak_usage, prodVars, accepted, max_count, count, out>>

\* The steps of a pop call with valid arguments.
PopSteps ==
    \/ PopBegin
    \/ PopEmpty
    \/ PopCheck
    \/ PopCopy1
    \/ PopCopy2
    \/ PopAdvance
    \/ PopCount

PopNext == PopInvalid \/ PopSteps

\* -------------------------------------------------- event_buffer_pop_batch
\* max_count <= 0 (or a null pointer): return 0 (lines 150-152).
BatchInvalid(m) ==
    /\ c_pc = "idle"
    /\ m <= 0
    /\ c_ret' = 0
    /\ UNCHANGED <<extVars, bufVars, prodVars, histVars, c_pc, max_count, count,
                   current_read, out>>

\* Entry with max_count = m > 0: count = 0, i = 0 (lines 154-157).  The loop
\* index i always equals count, so one variable stands for both.
BatchBegin(m) ==
    /\ c_pc = "idle"
    /\ m > 0
    /\ max_count' = m
    /\ count' = 0
    /\ out' = ZeroOut
    /\ c_quiet' = TRUE
    /\ c_pc' = "b_loop"
    /\ UNCHANGED <<extVars, bufVars, prodVars, accepted, returned, current_read, c_ret>>

\* i < max_count; current_read = read_pos; not empty (lines 157-163).
BatchCheck ==
    /\ c_pc = "b_loop"
    /\ count < max_count
    /\ ~IsEmpty(read_pos, write_pos)
    /\ current_read' = read_pos
    /\ c_pc' = "b_copy1"
    /\ UNCHANGED <<extVars, bufVars, prodVars, histVars, max_count, count, out, c_ret>>

\* The loop ends: i reached max_count, or the queue is empty (break).
BatchBreak ==
    /\ c_pc = "b_loop"
    /\ (count >= max_count \/ IsEmpty(read_pos, write_pos))
    /\ c_pc' = "b_count"
    /\ UNCHANGED <<extVars, bufVars, prodVars, histVars, max_count, count,
                   current_read, out, c_ret>>

\* memcpy(&events[i], &buffer->events[current_read]) (line 166), first part.
BatchCopy1 ==
    /\ c_pc = "b_copy1"
    /\ out' = [out EXCEPT ![count].timestamp = events[current_read].timestamp]
    /\ c_pc' = "b_copy2"
    /\ UNCHANGED <<extVars, bufVars, prodVars, histVars, max_count, count,
                   current_read, c_ret>>

\* memcpy(&events[i], &buffer->events[current_read]), second part.
BatchCopy2 ==
    /\ c_pc = "b_copy2"
    /\ out' = [out EXCEPT ![count].pid = events[current_read].pid]
    /\ c_pc' = "b_advance"
    /\ UNCHANGED <<extVars, bufVars, prodVars, histVars, max_count, count,
                   current_read, c_ret>>

\* InterlockedExchange(&read_pos, next_read); count++ (lines 169-173).
BatchAdvance ==
    /\ c_pc = "b_advance"
    /\ read_pos' = NextPos(current_read)
    /\ count' = count + 1
    /\ current_read' = 0
    /\ c_pc' = "b_loop"
    /\ TrackOccupancy(write_pos, NextPos(current_read))
    /\ UNCHANGED <<extVarsOfQueue, events, write_pos, total_pushed, total_popped,
                   dropped_count, peak_usage, prodVars, histVars, max_count,
                   out, c_ret>>

\* Mutant: the batch counts one pop, as event_buffer_pop does, whatever count.
BatchCountOne ==
    /\ c_pc = "b_count"
    /\ total_popped' = IF count > 0 THEN total_popped + 1 ELSE total_popped
    /\ c_ret' = count
    /\ returned' = returned \o [k \in 1 .. count |-> out[k - 1]]
    /\ c_pc' = "idle"
    /\ max_count' = 0
    /\ count' = 0
    /\ c_quiet' = FALSE
    /\ UNCHANGED <<extVars, events, write_pos, read_pos, total_pushed, dropped_count,
                   peak_usage, prodVars, accepted, current_read, out>>

\* Mutant: the batch adds its count to total_pushed instead of total_popped.
BatchCountWrongCounter ==
    /\ c_pc = "b_count"
    /\ total_pushed' = IF count > 0 THEN total_pushed + count ELSE total_pushed
    /\ c_ret' = count
    /\ returned' = returned \o [k \in 1 .. count |-> out[k - 1]]
    /\ c_pc' = "idle"
    /\ max_count' = 0
    /\ count' = 0
    /\ c_quiet' = FALSE
    /\ UNCHANGED <<extVars, events, write_pos, read_pos, total_popped, dropped_count,
                   peak_usage, prodVars, accepted, current_read, out>>

\* if (count > 0) InterlockedExchangeAdd64(&total_popped, count); return count
\* (lines 177-181).
BatchCount ==
    /\ c_pc = "b_count"
    /\ total_popped' = IF count > 0 THEN total_popped + count ELSE total_popped
    /\ c_ret' = count
    /\ returned' = returned \o [k \in 1 .. count |-> out[k - 1]]
    /\ c_pc' = "idle"
    /\ max_count' = 0
    /\ count' = 0
    /\ c_quiet' = FALSE
    /\ UNCHANGED <<extVars, events, write_pos, read_pos, total_pushed, dropped_count,
                   peak_usage, prodVars, accepted, current_read, out>>

\* A pop_batch call that returns at once: max_count <= 0.
BatchInvalidCall == \E m \in -1 .. 0 : BatchInvalid(m)

\* The steps of a pop_batch call with max_count > 0.
BatchSteps ==
    \/ \E m \in 1 .. MaxBatch : BatchBegin(m)
    \/ BatchCheck
    \/ BatchBreak
    \/ BatchCopy1
    \/ BatchCopy2
    \/ BatchAdvance
    \/ BatchCount

BatchNext == BatchInvalidCall \/ BatchSteps

\* ---------------------------------------------------------- specification
Next == PushNext \/ PopNext \/ BatchNext

Spec == Init /\ [][Next]_vars

\* One producer pushing its events and one consumer that keeps calling
\* event_buffer_pop_batch with max_count > 0 (producer_thread and
\* consumer_thread of the concurrency test); both threads keep being scheduled.
NextLive == PushSteps \/ BatchSteps

SpecLive == Init /\ [][NextLive]_vars /\ WF_vars(PushSteps) /\ WF_vars(BatchSteps)

\* ================================================================ claims
Min(a, b) == IF a <= b THEN a ELSE b

\* Number of times the consumer has advanced read_pos: the events already
\* handed back plus those popped by the call in progress.
Consumed ==
    Len(returned) + count + (IF c_pc = "pop_count" THEN 1 ELSE 0)

\* Number of events held in the queue: published and not yet consumed.
Held == Len(accepted) - Consumed

Copying == c_pc \in {"pop_copy1", "pop_copy2", "b_copy1", "b_copy2"}
Writing == p_pc \in {"copy1", "copy2"}

\* C1: Transport Queue FIFO.  In every interleaving the events returned to
\* the consumer (and those already copied out by a pop_batch in progress) are
\* a prefix of the accepted events, in push order, without duplicate or gap,
\* each field for field identical to the event pushed.
C1_FifoPrefix ==
    /\ Len(returned) <= Len(accepted)
    /\ \A k \in 1 .. Len(returned) : returned[k] = accepted[k]
    /\ \A k \in 1 .. count :
           /\ Len(returned) + k <= Len(accepted)
           /\ out[k - 1] = accepted[Len(returned) + k]

\* C1 witness: the consumer got more events than the array has slots (the
\* indices wrapped), some of them by a full batch, after a push was dropped.
C1_Witness ==
    /\ Len(returned) >= EVENT_BUFFER_SIZE
    /\ dropped_count > 0
    /\ c_pc = "idle" /\ c_ret = MaxBatch

\* C2: no torn reads.  While the consumer copies from a slot, that slot holds
\* one whole published event and the producer is not writing into it; a slot
\* is completely written when the producer is about to publish it.
C2_NoTornRead ==
    /\ Copying =>
          /\ Consumed < Len(accepted)
          /\ events[current_read] = accepted[Consumed + 1]
          /\ ~(Writing /\ current_write = current_read)
    /\ c_pc \in {"pop_advance", "b_advance"} =>
          out[count] = accepted[Consumed + 1]
    /\ p_pc = "publish" => events[current_write] = p_event

\* C2 witness: the producer is in the middle of its memcpy while the consumer
\* is in the middle of its own, after the indices wrapped.
C2_Witness ==
    /\ p_pc = "copy2" /\ c_pc \in {"pop_copy2", "b_copy2"}
    /\ Len(accepted) >= EVENT_BUFFER_SIZE

\* No pop has taken an event out of the queue yet.
NoPopYet == Consumed = 0

\* C3: one slot reserved.  The queue never holds more than capacity - 1
\* events; from the empty queue with no intervening pop exactly capacity - 1
\* pushes are accepted and every further push is a drop counted once.
C3_OneSlotReserved ==
    /\ Held <= EVENT_BUFFER_SIZE - 1
    /\ (NoPopYet /\ p_pc = "idle") =>
          /\ total_pushed = Min(push_calls, EVENT_BUFFER_SIZE - 1)
          /\ Len(accepted) = total_pushed
          /\ dropped_count = push_calls - total_pushed

\* C3 witness: capacity + 1 pushes were made with no pop: two were dropped.
C3_Witness ==
    /\ NoPopYet /\ p_pc = "idle"
    /\ push_calls = EVENT_BUFFER_SIZE + 1
    /\ total_pushed = EVENT_BUFFER_SIZE - 1
    /\ dropped_count = 2

\* C4: with no push published during the call, pop_batch(max) returns exactly
\* min(max, available) events, the oldest queued ones in push order; read_pos
\* has advanced by that count and total_popped grows by that count.  With
\* max <= 0 it returns 0 and changes nothing.
C4_BatchExact ==
    [][ /\ (BatchCount /\ c_quiet) =>
              LET avail == Len(accepted) - Len(returned)
                  k == Min(max_count, avail)
              IN  /\ c_ret' = k
                  /\ returned' =
                       returned \o SubSeq(accepted, Len(returned) + 1,
                                          Len(returned) + k)
                  /\ read_pos' = (Len(returned) + k) % EVENT_BUFFER_SIZE
                  /\ total_popped = Len(returned)
                  /\ total_popped' = total_popped + k
        /\ BatchInvalidCall =>
              /\ c_ret' = 0
              /\ UNCHANGED <<extVars, bufVars, histVars, out, max_count, count,
                             current_read, c_pc>>
      ]_vars

\* C4 witness: a pop_batch(2) that found one event only is about to return,
\* no push having been published during the call, after the indices wrapped.
C4_Witness ==
    /\ c_pc = "b_count" /\ c_quiet
    /\ max_count = 2 /\ count = 1
    /\ Len(returned) >= EVENT_BUFFER_SIZE - 1
    /\ Len(accepted) = Len(returned) + 1

\* C5 (as claimed): event_buffer_pop returns EDR_SUCCESS when it pops an
\* event, and returns EDR_ERROR_BUFFER_EMPTY without writing the output event
\* or changing an index or counter when read_pos = write_pos.
C5_PopReturnCodes ==
    [][ /\ PopCount => c_ret' = EDR_SUCCESS
        /\ PopEmpty =>
              /\ c_ret' = EDR_ERROR_BUFFER_EMPTY
              /\ UNCHANGED <<extVars, bufVars, out, returned>>
      ]_vars

C7_IndexOwnership ==
    [][ /\ PushNext =>
              /\ UNCHANGED <<read_pos, total_popped>>
              /\ \A s \in Slots : s # write_pos => events'[s] = events[s]
        /\ (PopNext \/ BatchNext) =>
              UNCHANGED <<write_pos, total_pushed, dropped_count, peak_usage>>
      ]_vars

\* C7 witness: both threads are in the middle of a call, each about to write
\* its own index, after the indices wrapped.
C7_Witness ==
    /\ p_pc = "publish" /\ c_pc \in {"pop_advance", "b_advance"}
    /\ Len(accepted) >= EVENT_BUFFER_SIZE

\* C8: peak_usage never decreases and never exceeds capacity - 1; the usage a
\* push computes is the occupancy of the queue at that moment, and when the
\* push returns peak_usage is at least that usage.
C8_PeakMonotone ==
    [][ /\ peak_usage' >= peak_usage
        /\ peak_usage' <= EVENT_BUFFER_SIZE - 1
        /\ PushUsage => usage' = Held
        /\ ((PushPeakUpdate \/ PushDone) /\ p_pc' = "idle") =>
              peak_usage' >= usage
      ]_vars

\* C8 witness: the peak reached capacity - 1 and the queue has since been
\* emptied by the consumer, the last push having returned.
C8_Witness ==
    /\ peak_usage = EVENT_BUFFER_SIZE - 1
    /\ p_pc = "idle" /\ p_ret = EDR_SUCCESS
    /\ c_pc = "idle" /\ Held = 0
    /\ total_popped >= EVENT_BUFFER_SIZE

\* No push or pop is in progress.
Quiescent == p_pc = "idle" /\ c_pc = "idle"

\* C9: counter conservation.  Whenever no push or pop is in progress,
\* total_pushed - total_popped is the current usage and the number of push
\* calls with valid arguments is total_pushed + dropped_count.
C9_CounterConservation ==
    Quiescent =>
        /\ total_pushed - total_popped
             = (write_pos - read_pos + EVENT_BUFFER_SIZE) % EVENT_BUFFER_SIZE
        /\ total_pushed - total_popped
             = event_buffer_get_usage(write_pos, read_pos)
        /\ push_calls = total_pushed + dropped_count

\* C9 witness: at rest after drops and pops, with the write index wrapped
\* behind the read index.
C9_Witness ==
    /\ Quiescent
    /\ dropped_count > 0 /\ total_popped > 0
    /\ write_pos < read_pos
    /\ push_calls = MaxPushCalls

\* C10: drain liveness.  With one producer pushing finitely many events and
\* one consumer that keeps calling pop_batch, both weakly fair, every accepted
\* event is eventually returned to the consumer, and finally the queue stays
\* empty with total_popped equal to total_pushed.
C10_DrainLiveness ==
    /\ \A i \in 1 .. MaxPushCalls :
           (Len(accepted) >= i) ~> (Len(returned) >= i)
    /\ <>[](/\ write_pos = read_pos
            /\ total_popped = total_pushed
            /\ Len(returned) = Len(accepted))

\* C10 witness: the producer made all its calls, some were dropped, and the
\* consumer has been handed every accepted event.
C10_Witness ==
    /\ push_calls = MaxPushCalls /\ Quiescent
    /\ dropped_count > 0
    /\ Len(accepted) = total_pushed
    /\ Len(returned) = Len(accepted)
    /\ total_popped = total_pushed
    /\ write_pos = read_pos

(***************************************************************************)
(* Part 2: the Handle Cache of the process-event consumer                  *)
(* (collector/windows/etw_process.c).  The cache is owned by one thread    *)
(* (the ETW consumption thread, or the test that calls the lookup), so a   *)
(* lookup is one action.  What the operating system decides is an input:   *)
(* whether OpenProcess succeeds, and how far the tick clock has advanced.  *)
(***************************************************************************)

\* Mutant: the search loop starts at index 1.
FindIndexSkipFirst(cache, used, pid) ==
    LET found == {i \in 1 .. (used - 1) : cache[i].pid = pid}
    IN  IF found = {} THEN -1
        ELSE CHOOSE i \in found : \A j \in found : i <= j

\* The search loop of etw_get_process_handle: the first index below
\* cache_used that holds the pid, or -1.
FindIndex(cache, used, pid) ==
    LET found == {i \in 0 .. (used - 1) : cache[i].pid = pid}
    IN  IF found = {} THEN -1
        ELSE CHOOSE i \in found : \A j \in found : i <= j

\* Mutant: the scan keeps the largest last_access (most recently used).
LruIndexNewest(cache) ==
    CHOOSE i \in CacheIdx :
        /\ \A j \in CacheIdx : cache[j].last_access <= cache[i].last_access
        /\ \A j \in CacheIdx :
              cache[j].last_access = cache[i].last_access => i <= j

\* The LRU scan: starts at index 0 and moves on a strictly smaller
\* last_access only, so it ends on the first index holding the minimum.
LruIndex(cache) ==
    CHOOSE i \in CacheIdx :
        /\ \A j \in CacheIdx : cache[i].last_access <= cache[j].last_access
        /\ \A j \in CacheIdx :
              cache[j].last_access = cache[i].last_access => i <= j

\* Mutant: the capacity test is off by one.
HasFreeSlotLoose(used) == used <= PROCESS_HANDLE_CACHE_SIZE

\* if (consumer->cache_used < PROCESS_HANDLE_CACHE_SIZE)
HasFreeSlot(used) == used < PROCESS_HANDLE_CACHE_SIZE

\* Mutant: the result of OpenProcess is not tested.
OpenFailedIgnored(handle) == FALSE

\* if (handle == NULL) return NULL;
OpenFailed(handle) == handle = NoHandle

\* Number of CloseHandle calls made on a handle.
CloseCount(h) == Cardinality({k \in DOMAIN close_log : close_log[k] = h})

\* The pids held by the Range of a sequence.
Range(q) == {q[k] : k \in DOMAIN q}

\* Mutant: the pid of the entry is not stored.
NewEntryNoPid(pid, handle, now) ==
    [pid |-> 0, handle |-> handle, last_access |-> now]

\* The entry a miss stores: pid, handle and last_access = current_time.
NewEntry(pid, handle, now) ==
    [pid |-> pid, handle |-> handle, last_access |-> now]

\* etw_get_process_handle(consumer, pid) with consumer non-null.  ok tells
\* whether OpenProcess would succeed, now is what GetTickCount64 returns.
etw_get_process_handle(pid, ok, now) ==
    LET idx == FindIndex(handle_cache, cache_used, pid)
        handle == IF ok THEN opened + 1 ELSE NoHandle
        lru == LruIndex(handle_cache)
        old == handle_cache[lru].handle
        entry == NewEntry(pid, handle, now)
    IN
    /\ h_pid' = pid
    /\ tick' = now
    /\ lookups' = lookups + 1
    /\ run_ok' = (run_ok /\ pid # 0 /\ ok /\ pid \notin Range(run_pids))
    /\ run_pids' = IF run_ok' THEN Append(run_pids, pid) ELSE <<>>
    /\ used_at' = IF pid # 0 /\ (idx # -1 \/ ~OpenFailed(handle))
                  THEN [used_at EXCEPT ![pid] = lookups + 1]
                  ELSE used_at
    /\ IF pid = 0
       THEN \* if (consumer == NULL || pid == 0) return NULL;
            /\ h_ret' = NoHandle
            /\ UNCHANGED <<handle_cache, cache_used, open_handles, opened,
                           close_log, open_calls, given>>
       ELSE IF idx # -1
       THEN \* hit: refresh last_access, return the cached handle
            /\ handle_cache' = [handle_cache EXCEPT ![idx].last_access = now]
            /\ h_ret' = handle_cache[idx].handle
            /\ UNCHANGED <<cache_used, open_handles, opened, close_log,
                           open_calls, given>>
       ELSE \* miss: OpenProcess
            /\ open_calls' = open_calls + 1
            /\ opened' = IF ok THEN opened + 1 ELSE opened
            /\ IF OpenFailed(handle)
               THEN /\ h_ret' = NoHandle
                    /\ open_handles' =
                           IF ok THEN open_handles \cup {handle}
                           ELSE open_handles
                    /\ UNCHANGED <<handle_cache, cache_used, close_log, given>>
               ELSE IF HasFreeSlot(cache_used)
               THEN \* append at index cache_used
                    /\ handle_cache' = [handle_cache EXCEPT ![cache_used] = entry]
                    /\ cache_used' = cache_used + 1
                    /\ open_handles' =
                           IF ok THEN open_handles \cup {handle}
                           ELSE open_handles
                    /\ h_ret' = handle
                    /\ given' = [given EXCEPT ![pid] = handle]
                    /\ UNCHANGED close_log
               ELSE \* full: close the least recently used handle, then
                    \* reuse its slot
                    /\ close_log' = IF old # NoHandle
                                    THEN Append(close_log, old) ELSE close_log
                    /\ open_handles' =
                           (open_handles \ {old}) \cup
                           (IF ok THEN {handle} ELSE {})
                    /\ handle_cache' = [handle_cache EXCEPT ![lru] = entry]
                    /\ h_ret' = handle
                    /\ given' = [given EXCEPT ![pid] = handle]
                    /\ UNCHANGED cache_used

\* A direct call of etw_get_process_handle, as etw_process_test.c makes them;
\* the clock has advanced by dt ticks since the last reading.
GetHandle(pid, ok, dt) ==
    /\ consumer_live
    /\ lookups < MaxLookups
    /\ etw_get_process_handle(pid, ok, tick + dt)
    /\ UNCHANGED <<bufVars, prodVars, consVars, histVars, cbVars, sessVars,
                   etwVars, callVars, restVars, total_events, parse_errors,
                   consumer_live>>

GetHandleCall == \E pid \in Pids, ok \in BOOLEAN, dt \in 0 .. 1 : GetHandle(pid, ok, dt)

\* Mutant: the closing loop starts at index 1.
DestroyRangeFromOne == 1 .. (PROCESS_HANDLE_CACHE_SIZE - 1)

\* for (i = 0; i < PROCESS_HANDLE_CACHE_SIZE; i++)
DestroyRange == 0 .. (PROCESS_HANDLE_CACHE_SIZE - 1)

\* The handles the closing loop passes to CloseHandle from index i on.
RECURSIVE DestroyCloses(_, _)
DestroyCloses(cache, i) ==
    IF i >= PROCESS_HANDLE_CACHE_SIZE THEN <<>>
    ELSE (IF i \in DestroyRange /\ cache[i].handle # NoHandle
          THEN <<cache[i].handle>> ELSE <<>>) \o DestroyCloses(cache, i + 1)

\* etw_process_consumer_destroy: close every non-null handle, free.
ConsumerDestroy ==
    /\ consumer_live
    /\ close_log' = close_log \o DestroyCloses(handle_cache, 0)
    /\ open_handles' = open_handles \ Range(DestroyCloses(handle_cache, 0))
    /\ handle_cache' =
           [i \in CacheIdx |->
               IF i \in DestroyRange
               THEN [handle_cache[i] EXCEPT !.handle = NoHandle]
               ELSE handle_cache[i]]
    /\ consumer_live' = FALSE
    /\ UNCHANGED <<bufVars, prodVars, consVars, histVars, cbVars, sessVars,
                   etwVars, callVars, restVars, cache_used, total_events,
                   parse_errors,
                   opened, open_calls, tick, lookupVars>>

\* The consumer used on its own: lookups, then destruction.
NextCache == GetHandleCall \/ ConsumerDestroy

SpecCache == Init /\ [][NextCache]_vars

\* ------------------------------------------------- claims: Handle Cache
\* The pid occupies one of the cache_used filled entries.
Cached(pid) == \E i \in 0 .. (cache_used - 1) : handle_cache[i].pid = pid

\* The handles held by the filled entries.
CachedHandles == {handle_cache[i].handle : i \in 0 .. (cache_used - 1)}

\* C11: after capacity + 1 lookups of pairwise distinct pids whose opens all
\* succeeded, exactly one entry was evicted: that of the first pid looked up.
\* Its handle is the only one closed (so the handle closed is the one the
\* slot held before it was reused, never the new one), and the other
\* capacity pids are cached with the handles they were given, all open.
C11_EvictsOldest ==
    (consumer_live /\ run_ok /\ lookups = PROCESS_HANDLE_CACHE_SIZE + 1) =>
        LET first == run_pids[1]
            rest == Range(run_pids) \ {first}
        IN  /\ cache_used = PROCESS_HANDLE_CACHE_SIZE
            /\ {handle_cache[i].pid : i \in CacheIdx} = rest
            /\ given[first] # NoHandle
            /\ close_log = <<given[first]>>
            /\ CachedHandles = {given[p] : p \in rest}
            /\ open_handles = CachedHandles
            /\ h_ret \in open_handles

C11_Witness ==
    /\ consumer_live
    /\ run_ok
    /\ lookups = PROCESS_HANDLE_CACHE_SIZE + 1
    /\ Len(close_log) = 1

\* C12: a lookup of a cached pid returns the handle given when the pid was
\* cached, calls neither OpenProcess nor CloseHandle, leaves cache_used alone
\* and changes nothing in the cache but the last_access of that entry.
C12_HitFrame ==
    [][\A pid \in Pids \ {0}, ok \in BOOLEAN, dt \in 0 .. 1 :
          (GetHandle(pid, ok, dt) /\ Cached(pid)) =>
              /\ h_ret' = given[pid]
              /\ h_ret' # NoHandle
              /\ open_calls' = open_calls
              /\ opened' = opened
              /\ open_handles' = open_handles
              /\ close_log' = close_log
              /\ cache_used' = cache_used
              /\ \E i \in 0 .. (cache_used - 1) :
                    /\ handle_cache[i].pid = pid
                    /\ handle_cache' =
                          [handle_cache EXCEPT ![i].last_access = tick + dt]
      ]_vars

\* Two lookups, one OpenProcess call: the second lookup was a hit.
C12_Witness ==
    /\ lookups = 2
    /\ open_calls = 1
    /\ cache_used = 1
    /\ h_pid # 0
    /\ h_ret # NoHandle
    /\ h_ret = given[h_pid]

\* C13: whatever the lookups and the outcomes of their opens, cache_used never
\* decreases and never exceeds PROCESS_HANDLE_CACHE_SIZE.
C13_CacheUsedBounded ==
    [][/\ cache_used <= cache_used'
       /\ cache_used' <= PROCESS_HANDLE_CACHE_SIZE]_vars

\* The cache is full, more lookups than entries were made, an open failed.
C13_Witness ==
    /\ cache_used = PROCESS_HANDLE_CACHE_SIZE
    /\ lookups > PROCESS_HANDLE_CACHE_SIZE
    /\ open_calls > opened
    /\ opened > PROCESS_HANDLE_CACHE_SIZE

\* C14: a lookup of pid 0, or of an uncached pid whose open fails, returns
\* null and leaves the cache entries, cache_used and the open handles as they
\* were; the pid is not cached, and every lookup of an uncached non-zero pid
\* calls OpenProcess, so the pid is opened again on its next lookup.
C14_NoNegativeCaching ==
    [][\A pid \in Pids, ok \in BOOLEAN, dt \in 0 .. 1 :
          /\ (GetHandle(pid, ok, dt) /\ (pid = 0 \/ (~Cached(pid) /\ ~ok))) =>
                /\ h_ret' = NoHandle
                /\ handle_cache' = handle_cache
                /\ cache_used' = cache_used
                /\ open_handles' = open_handles
                /\ close_log' = close_log
                /\ ~Cached(pid)'
          /\ (GetHandle(pid, ok, dt) /\ pid # 0 /\ ~Cached(pid)) =>
                open_calls' = open_calls + 1
      ]_vars

\* Two lookups, both reached OpenProcess and both opens failed.
C14_Witness ==
    /\ lookups = 2
    /\ open_calls = 2
    /\ opened = 0
    /\ h_pid # 0
    /\ h_ret = NoHandle
    /\ cache_used = 0

\* C15: only handles the cache opened are closed, none more than once; a
\* handle is open exactly as long as it was never closed; while the consumer
\* lives the open handles are exactly the cached ones (a handle is closed
\* when, and only when, its entry is evicted); after destroy every handle
\* ever opened has been closed once and none is open.
C15_HandleOwnership ==
    /\ Range(close_log) \subseteq 1 .. opened
    /\ \A h \in 1 .. opened :
          /\ CloseCount(h) <= 1
          /\ (h \in open_handles) <=> (CloseCount(h) = 0)
    /\ consumer_live => open_handles = CachedHandles
    /\ ~consumer_live =>
          /\ open_handles = {}
          /\ \A h \in 1 .. opened : CloseCount(h) = 1

\* Destroyed after at least one eviction.
C15_Witness ==
    /\ ~consumer_live
    /\ opened > PROCESS_HANDLE_CACHE_SIZE
    /\ Len(close_log) = opened

\* C39: as long as the consumer exists, the cache_used filled entries of
\* the Handle Cache hold pairwise different pids, none of them 0, and each
\* holds a non-null handle that is open.
C39_CacheWellFormed ==
    consumer_live =>
        \A i \in 0 .. (cache_used - 1) :
            /\ handle_cache[i].pid # 0
            /\ handle_cache[i].handle # NoHandle
            /\ handle_cache[i].handle \in open_handles
            /\ \A j \in 0 .. (cache_used - 1) :
                  handle_cache[i].pid = handle_cache[j].pid => i = j

\* The cache is full, an entry was evicted and replaced, and the last
\* lookup was a hit that returned a cached handle.
C39_Witness ==
    /\ consumer_live
    /\ cache_used = PROCESS_HANDLE_CACHE_SIZE
    /\ Len(close_log) >= 1
    /\ lookups > open_calls
    /\ h_pid # 0
    /\ h_ret \in CachedHandles

\* The pids the filled entries of the cache hold.
CachedPids(cache) == {cache[i].pid : i \in 0 .. (cache_used - 1)}

\* A step that is a lookup which misses on a full cache and replaces an
\* entry.
EvictionStep ==
    /\ lookups' = lookups + 1
    /\ cache_used = PROCESS_HANDLE_CACHE_SIZE
    /\ CachedPids(handle_cache') # CachedPids(handle_cache)

\* C40: on a miss with a full cache, the entry evicted is the one whose
\* last lookup (the one that cached it, or its last hit) is the earliest
\* in the order of the lookups among the cached entries, also when several
\* lookups read the same value of the clock.
C40_LruVictim ==
    [][EvictionStep =>
          \A p \in CachedPids(handle_cache) \ CachedPids(handle_cache') :
              \A q \in CachedPids(handle_cache) : used_at[p] <= used_at[q]
      ]_vars

(***************************************************************************)
(* Part 3: the record parser and enricher (etw_parse_process_start,        *)
(* etw_parse_process_end, etw_process_event_callback).  The callback runs  *)
(* on the consumption thread, which is the producer of the Transport       *)
(* Queue: a callback builds its event in one action and enters             *)
(* event_buffer_push, whose steps then run as in Part 1.  A raw record is  *)
(* [timestamp, pid, opcode, data]: the header fields and the payload as a  *)
(* sequence of DWORDs.  What the operating system answers to each query is *)
(* an input.                                                               *)
(***************************************************************************)

\* What QueryFullProcessImageNameA writes on success.
ImagePath == <<"C:", "Windows", "app.exe">>
\* What get_process_user writes on success ("%s\\%s" of domain and name).
UserName == "DOMAIN\\user"
\* What get_process_commandline writes ("[CommandLine for PID %u]").
CommandLineFor(pid) == <<"CommandLine for PID", pid>>
\* The sentinel process name of etw_parse_process_start.
AccessDenied == "[Access Denied]"

\* strrchr(path, '\\') then the text after it; "" stands for no backslash
\* found, where process_name keeps its zeroed value.
AfterLastSlash(path) == IF Len(path) >= 2 THEN path[Len(path)] ELSE ""

\* The first DWORD of UserData if UserDataLength >= sizeof(DWORD), else the
\* zero the field was cleared to.
FirstDword(data) == IF Len(data) >= 1 THEN data[1] ELSE 0

\* Header fields common to both parsers (timestamp, pid, event_type).
ParseHeader(rec, type) ==
    [ZeroProcessEvent EXCEPT !.timestamp = rec.timestamp,
                             !.pid = rec.pid,
                             !.event_type = type]

\* The enrichment steps etw_parse_process_start calls once it has a handle:
\* the hash is computed only when the path is not empty.
StepsAttempted(path) ==
    {"path", "command_line", "user"} \cup
    (IF path # <<>> THEN {"hash"} ELSE {})

\* etw_parse_process_start on a record, given the handle the Handle Cache
\* returned and whether the path and the user queries succeed.
etw_parse_process_start(rec, handle, path_ok, user_ok) ==
    LET base == [ParseHeader(rec, EDR_PROCESS_START)
                    EXCEPT !.ppid = FirstDword(rec.data)]
        path == IF path_ok THEN ImagePath ELSE <<>>
    IN  IF handle # NoHandle
        THEN [base EXCEPT !.executable_path = path,
                          !.process_name = AfterLastSlash(path),
                          !.command_line = CommandLineFor(rec.pid),
                          !.username = IF user_ok THEN UserName ELSE "",
                          !.sha256 = 0]
        ELSE [base EXCEPT !.process_name = AccessDenied]

\* etw_parse_process_end on a record.
etw_parse_process_end(rec) ==
    [ParseHeader(rec, EDR_PROCESS_END) EXCEPT !.exit_code = FirstDword(rec.data)]

\* Mutant: a START record without a handle is a parse failure.
StartResultStrict(handle) ==
    IF handle = NoHandle THEN EDR_ERROR_INVALID_PARAM ELSE EDR_SUCCESS

\* The value etw_parse_process_start returns (consumer, record and out_event
\* are non-null): EDR_SUCCESS with or without a handle.
StartResult(handle) == EDR_SUCCESS

\* Mutant: every code but 1 is taken for PROCESS_END.
IsEndOpcodeLoose(opcode) == opcode # 1

\* else if (opcode == 2)
IsEndOpcode(opcode) == opcode = 2

\* if (opcode == 1)
IsStartOpcode(opcode) == opcode = 1

\* The part of the event the Transport Queue model carries.
QueueEvent(e) == [timestamp |-> e.timestamp, pid |-> e.pid]

\* The end of etw_process_event_callback: a parsed event is handed to
\* event_buffer_push (entry of the push: current_write, next_write), a parse
\* failure is counted.  start_errors is what etw_parse_process_start added
\* to parse_errors.
CallbackFinish(e, parse_result, start_errors) ==
    /\ parse_errors' = parse_errors + start_errors +
                       (IF parse_result = EDR_SUCCESS THEN 0 ELSE 1)
    /\ IF parse_result = EDR_SUCCESS
       THEN /\ push_calls' = push_calls + 1
            /\ p_event' = QueueEvent(e)
            /\ current_write' = write_pos
            /\ next_write' = NextPos(write_pos)
            /\ p_pc' = "check"
            /\ delivered' = Append(delivered, e.timestamp)
       ELSE UNCHANGED <<push_calls, p_event, current_write, next_write, p_pc,
                        delivered>>

\* etw_process_event_callback on the next raw record (non-null record and
\* context).  The record's timestamp is its delivery number.  ok, dt,
\* path_ok and user_ok are the operating system's answers.
Callback(op, pid, data, ok, dt, path_ok, user_ok) ==
    LET rec == [timestamp |-> records + 1, pid |-> pid, opcode |-> op,
                data |-> data]
    IN
    /\ consumer_live
    /\ p_pc = "idle"
    /\ records' = records + 1
    /\ total_events' = total_events + 1
    /\ cb_record' = rec
    /\ IF IsStartOpcode(op)
       THEN /\ etw_get_process_handle(pid, ok, tick + dt)
            /\ cb_event' = etw_parse_process_start(rec, h_ret', path_ok, user_ok)
            /\ cb_attempted' = IF h_ret' # NoHandle
                               THEN StepsAttempted(cb_event'.executable_path)
                               ELSE {}
            /\ cb_failed' = IF h_ret' # NoHandle
                            THEN (IF path_ok THEN {} ELSE {"path"}) \cup
                                 (IF user_ok THEN {} ELSE {"user"})
                            ELSE {}
            /\ CallbackFinish(cb_event', StartResult(h_ret'),
                              IF h_ret' = NoHandle THEN 1 ELSE 0)
       ELSE IF IsEndOpcode(op)
       THEN /\ cb_event' = etw_parse_process_end(rec)
            /\ CallbackFinish(cb_event', EDR_SUCCESS, 0)
            /\ UNCHANGED <<handle_cache, cache_used, osVars, lookupVars,
                           cb_attempted, cb_failed>>
       ELSE \* unknown opcode: return
            /\ cb_event' = ZeroProcessEvent
            /\ UNCHANGED <<handle_cache, cache_used, parse_errors, osVars,
                           lookupVars, cb_attempted, cb_failed, delivered,
                           push_calls, p_event, current_write, next_write,
                           p_pc>>
    /\ UNCHANGED <<bufVars, consVars, histVars, sessVars, etwVars, callVars,
                   restVars,
                   usage, current_peak, p_ret, consumer_live>>

\* Operation codes: 1, 2, and 3 standing for every other code.
Opcodes == 1 .. 3
\* Payloads: none, or one DWORD.
Payloads == {<<>>, <<PidBase>>}
\* Pids of the records: 0 (no handle can be had) and a live process.
RecordPids == 0 .. 1

\* The tracing backend delivers a record.
CallbackCall ==
    /\ records < MaxRecords
    /\ \E op \in Opcodes, pid \in RecordPids, data \in Payloads,
          ok \in BOOLEAN, dt \in 0 .. 1, path_ok \in BOOLEAN,
          user_ok \in BOOLEAN :
          Callback(op, pid, data, ok, dt, path_ok, user_ok)

\* The steps of the event_buffer_push call a callback has entered, when
\* nothing is ever popped: every published event then raises the usage above
\* the peak, so the call returns through the peak update or the full test.
PushUnpolled ==
    \/ PushFull
    \/ PushCheck
    \/ PushCopy1
    \/ PushCopy2
    \/ PushPublish
    \/ PushCount
    \/ PushUsage
    \/ PushPeakUpdate

\* The steps of the event_buffer_push call a callback has entered.
PushInFlight == PushUnpolled \/ PushDone

\* The consumption thread alone: records are parsed and pushed, nothing polls.
NextCallback == CallbackCall \/ PushUnpolled

SpecCallback == Init /\ [][NextCallback]_vars

\* ------------------------------------------- claims: parser and enricher
\* The step is a callback: one more raw record has been delivered.
CallbackStep == records' = records + 1

\* The callback has entered event_buffer_push with the event it built.
PushAttempted ==
    /\ push_calls' = push_calls + 1
    /\ p_pc' = "check"
    /\ p_event' = QueueEvent(cb_event')
    /\ delivered' = Append(delivered, cb_record'.timestamp)

\* C16: a record with operation code 1 yields a START event and one with code
\* 2 an END event, each handed to event_buffer_push exactly once; a record
\* with any other code yields no push, leaves parse_errors alone and leaves
\* the Handle Cache and the handles it owns as they were.
C16_RecordDispatch ==
    [][CallbackStep =>
          /\ cb_record'.opcode = 1 =>
                cb_event'.event_type = EDR_PROCESS_START /\ PushAttempted
          /\ cb_record'.opcode = 2 =>
                cb_event'.event_type = EDR_PROCESS_END /\ PushAttempted
          /\ cb_record'.opcode \notin {1, 2} =>
                /\ UNCHANGED <<push_calls, p_pc, p_event, delivered>>
                /\ UNCHANGED parse_errors
                /\ UNCHANGED <<handle_cache, cache_used, open_handles,
                               close_log, open_calls>>
      ]_vars

\* An ignored record after a START and an END record were pushed.
C16_Witness ==
    /\ cb_record.opcode = 3
    /\ records = 3
    /\ total_events = 3
    /\ push_calls = 2
    /\ total_pushed = 2
    /\ p_pc = "idle"

\* C17: a START record for whose pid no handle is had (pid 0 or the open
\* fails) is still handed to event_buffer_push, with timestamp and pid of the
\* record header, event_type START, process_name "[Access Denied]", and
\* zeroed path, command line, username and hash.
C17_NoHandleStillEmitted ==
    [][(CallbackStep /\ cb_record'.opcode = 1 /\ h_ret' = NoHandle) =>
          /\ cb_event'.timestamp = cb_record'.timestamp
          /\ cb_event'.pid = cb_record'.pid
          /\ cb_event'.event_type = EDR_PROCESS_START
          /\ cb_event'.process_name = AccessDenied
          /\ cb_event'.executable_path = ZeroProcessEvent.executable_path
          /\ cb_event'.command_line = ZeroProcessEvent.command_line
          /\ cb_event'.username = ZeroProcessEvent.username
          /\ cb_event'.sha256 = ZeroProcessEvent.sha256
          /\ PushAttempted
      ]_vars

\* The open of a live pid failed and the sentinel event was published.
C17_Witness ==
    /\ cb_record.opcode = 1
    /\ cb_record.pid # 0
    /\ h_ret = NoHandle
    /\ open_calls > opened
    /\ cb_event.process_name = AccessDenied
    /\ Len(accepted) > 0
    /\ accepted[Len(accepted)] = QueueEvent(cb_event)

\* C18: for a START record whose handle was obtained, all four enrichment
\* steps are called whatever fails, each failed step leaves its field zeroed
\* and adds one to parse_errors, and the event is handed to
\* event_buffer_push.
C18_EnrichmentBestEffort ==
    [][(CallbackStep /\ cb_record'.opcode = 1 /\ h_ret' # NoHandle) =>
          /\ cb_attempted' = {"path", "command_line", "user", "hash"}
          /\ "path" \in cb_failed' =>
                cb_event'.executable_path = ZeroProcessEvent.executable_path
          /\ "user" \in cb_failed' =>
                cb_event'.username = ZeroProcessEvent.username
          /\ parse_errors' = parse_errors + Cardinality(cb_failed')
          /\ PushAttempted
      ]_vars

(***************************************************************************)
(* Part 4: the pipeline as edr_core.c wires it.  edr_core_init creates the *)
(* global queue with ring_buffer_create (an edr_ring_buffer_t: a slot      *)
(* pointer, capacity, mask, head, tail).  edr_start_process_collector and  *)
(* edr_poll_process_events cast that pointer to event_buffer_t* and hand   *)
(* it to the consumer and to event_buffer_pop_batch.  No event_buffer_t    *)
(* was ever created there: the events array, write_pos and read_pos that   *)
(* event_buffer_push and event_buffer_pop_batch access lie outside the     *)
(* ring buffer's allocation, so what they hold at first use is not defined *)
(* by the program.  It is taken from small sets here: any in-range value   *)
(* for each index, one of two contents for the slots.                      *)
(***************************************************************************)

\* What the memory read as an event slot may hold at first use.
StaleEvents == {ZeroEvent, MkEvent(1)}

\* edr_core_init then edr_start_process_collector: the queue the consumer is
\* given is the ring buffer seen as an event_buffer_t; everything else is
\* as after construction.
InitWired ==
    /\ \E g \in StaleEvents : events = [s \in Slots |-> g]
    /\ write_pos \in Slots /\ read_pos \in Slots
    /\ total_pushed = 0 /\ total_popped = 0 /\ dropped_count = 0
    /\ peak_usage = 0
    /\ ThreadsIdle
    /\ etw_process_consumer_create
    /\ etw_session_init
    /\ edr_core_init
    /\ ring_buffer_create
    /\ g_manager_zero
    /\ MonitorIdle

\* The tracing backend delivers one of at most n records, of a live process
\* whose queries succeed; the operation code is free.
CallbackStream(n) ==
    /\ records < n
    /\ \E op \in Opcodes : Callback(op, 1, <<>>, TRUE, 0, TRUE, TRUE)

\* edr_poll_process_events with max_count > 0 and non-null arguments: the
\* steps of event_buffer_pop_batch on the global queue; out_count is c_ret.
edr_poll_process_events == BatchSteps

\* The consumption thread and the polling consumer.
NextWired ==
    CallbackStream(MaxStream) \/ PushInFlight \/ edr_poll_process_events

\* The pipeline on the queue edr_core.c creates.
SpecWired == InitWired /\ [][NextWired]_vars

\* The same pipeline on a queue made by event_buffer_create, as the tests of
\* the consumer build it.
NextPipeline ==
    CallbackStream(MaxRecords) \/ PushInFlight \/ edr_poll_process_events

SpecPipeline == Init /\ [][NextPipeline]_vars

\* ------------------------------------------------------ claims: pipeline
\* Position of a timestamp among the records handed to event_buffer_push
\* (0 if it is none of them).
DeliveredPos(ts) ==
    IF \E k \in DOMAIN delivered : delivered[k] = ts
    THEN CHOOSE k \in DOMAIN delivered : delivered[k] = ts
    ELSE 0

\* C19: the events the consumer got from its polls are events of records
\* (operation code 1 or 2) that were delivered to the callback, in delivery
\* order and each at most once: a drop removes only the dropped event.
C19_EndToEndOrder ==
    /\ \A k \in DOMAIN returned : DeliveredPos(returned[k].timestamp) # 0
    /\ \A j, k \in DOMAIN returned :
          j < k => DeliveredPos(returned[j].timestamp) <
                   DeliveredPos(returned[k].timestamp)

(***************************************************************************)
(* Part 5: the ETW session (collector/windows/etw_session.c).  A call of   *)
(* etw_session_start or etw_session_stop is one action of the calling      *)
(* thread; the consumption thread (consume_thread_func) is a thread of its *)
(* own whose return from ProcessTrace is an action.  The results of the    *)
(* operating system calls are inputs, restricted to those the state of the *)
(* system allows: StartTraceW cannot succeed while a session of the same   *)
(* name exists, and reports ERROR_ALREADY_EXISTS only if one does.         *)
(* Handles are numbered in order of creation.                              *)
(***************************************************************************)

\* The session structure, the operating system objects and the log of the
\* operating system calls of the current call, as one record.
SessionState ==
    [session_handle |-> session_handle, trace_handle |-> trace_handle,
     consume_thread |-> consume_thread, is_running |-> is_running,
     restart_count |-> restart_count, callback |-> callback,
     os_session |-> os_session, sessions_created |-> sessions_created,
     open_traces |-> open_traces, traces_opened |-> traces_opened,
     live_threads |-> live_threads, thread_handles |-> thread_handles,
     threads_created |-> threads_created, thread_trace |-> thread_trace,
     calls |-> s_calls]

\* The operating system call name with the given result is made.
Log(S, name, result) == [S EXCEPT !.calls = Append(@, <<name, result>>)]

\* Results of StartTraceW: ERROR_SUCCESS, ERROR_ALREADY_EXISTS,
\* ERROR_ACCESS_DENIED, any other error.
StartTraceResults == {"ok", "exists", "denied", "error"}

\* Whether the system can answer r to StartTraceW in state S.
StartTracePossible(S, r) ==
    /\ r = "ok" => S.os_session = 0
    /\ r = "exists" => S.os_session # 0

\* StartTraceW(&session->session_handle, ETW_SESSION_NAME, properties) with
\* result r: on success a new kernel session, its handle stored.
StartTraceW(S, r) ==
    IF r = "ok"
    THEN [Log(S, "StartTraceW", r)
             EXCEPT !.os_session = S.sessions_created + 1,
                    !.sessions_created = S.sessions_created + 1,
                    !.session_handle = S.sessions_created + 1]
    ELSE Log(S, "StartTraceW", r)

\* ControlTraceW(0, ETW_SESSION_NAME, ..., EVENT_TRACE_CONTROL_STOP): stops
\* whatever session holds the name, if the call succeeds.
StopByName(S, ok) ==
    IF ok THEN [Log(S, "ControlTraceW(name)", ok) EXCEPT !.os_session = 0]
    ELSE Log(S, "ControlTraceW(name)", ok)

\* ControlTraceW(session_handle, NULL, ..., EVENT_TRACE_CONTROL_STOP): stops
\* the session the handle names, if it still exists and the call succeeds.
StopByHandle(S, ok) ==
    IF ok /\ S.os_session = S.session_handle /\ S.session_handle # 0
    THEN [Log(S, "ControlTraceW(handle)", ok) EXCEPT !.os_session = 0]
    ELSE Log(S, "ControlTraceW(handle)", ok)

\* Mutant: only the session argument is checked.
InvalidStartArgsSessionOnly(session_null, cb) == session_null

\* session == NULL || callback == NULL
InvalidStartArgs(session_null, cb) == session_null \/ cb = NoCallback

\* Mutant: access denied is not told apart from the other failures.
CreateFailureCodeGeneric(status) == EDR_ERROR_ETW_CREATE_FAILED

\* The code etw_session_start returns when the creation of the kernel
\* session ended with status (not ERROR_SUCCESS).
CreateFailureCode(status) ==
    IF status = "denied" THEN EDR_ERROR_ETW_ACCESS_DENIED
    ELSE EDR_ERROR_ETW_CREATE_FAILED

\* etw_session_start(session, callback, context), run on the state S;
\* session_null tells whether session is NULL.  r1 and r2 are the results of
\* the first StartTraceW and of the retry, stop_ok that of the stop by name
\* between them, enable_ok, open_ok and thread_ok those of EnableTraceEx2,
\* OpenTraceW and CreateThread, cleanup_ok that of the stop on a failure
\* path.  The value is the state reached and the code returned.
etw_session_start(S, session_null, cb, r1, stop_ok, r2, enable_ok, open_ok, thread_ok, cleanup_ok) ==
    IF InvalidStartArgs(session_null, cb)
    THEN [S |-> S, ret |-> EDR_ERROR_INVALID_PARAM]
    ELSE
    LET S1 == [S EXCEPT !.callback = cb]
        A == StartTraceW(S1, r1)
        B == IF r1 = "exists"
             THEN StartTraceW(StopByName(A, stop_ok), r2)
             ELSE A
        status == IF r1 = "exists" THEN r2 ELSE r1
        C == Log(B, "EnableTraceEx2", enable_ok)
        th == C.traces_opened + 1
        D == [Log(C, "OpenTraceW", TRUE)
                 EXCEPT !.trace_handle = th,
                        !.traces_opened = th,
                        !.open_traces = @ \cup {th}]
        t == D.threads_created + 1
    IN  IF status # "ok"
        THEN [S |-> B, ret |-> CreateFailureCode(status)]
        ELSE IF ~enable_ok
        THEN [S |-> StopByHandle(C, cleanup_ok),
              ret |-> EDR_ERROR_ETW_ENABLE_FAILED]
        ELSE IF ~open_ok
        THEN [S |-> [StopByHandle(Log(C, "OpenTraceW", FALSE), cleanup_ok)
                        EXCEPT !.trace_handle = InvalidTraceHandle],
              ret |-> EDR_ERROR_ETW_START_FAILED]
        ELSE IF thread_ok
        THEN [S |-> [Log(D, "CreateThread", TRUE)
                        EXCEPT !.is_running = 1,
                               !.consume_thread = t,
                               !.threads_created = t,
                               !.live_threads = @ \cup {t},
                               !.thread_handles = @ \cup {t},
                               !.thread_trace = Append(@, th)],
              ret |-> EDR_SUCCESS]
        ELSE [S |-> [StopByHandle(Log(Log(D, "CreateThread", FALSE),
                                      "CloseTrace", TRUE), cleanup_ok)
                        EXCEPT !.is_running = 0,
                               !.consume_thread = NoHandle,
                               !.open_traces = @ \ {th}],
              ret |-> EDR_ERROR_ETW_START_FAILED]

\* Mutant: the trace handle is left open.
etw_session_stop_trace_kept(S) == [S EXCEPT !.is_running = 0]

\* etw_session_stop, step 1: the session is marked stopped and its trace
\* handle, unless zero, is closed and zeroed.
etw_session_stop_trace(S) ==
    IF S.trace_handle # 0
    THEN [Log(S, "CloseTrace", TRUE)
             EXCEPT !.is_running = 0,
                    !.open_traces = @ \ {S.trace_handle},
                    !.trace_handle = 0]
    ELSE [S EXCEPT !.is_running = 0]

\* etw_session_stop, step 2: unless there is no thread handle, a wait of at
\* most 5 seconds for the consumption thread, which has exited when the wait
\* ends or has not; then the handle is closed and zeroed.
etw_session_stop_thread(S, exited) ==
    IF S.consume_thread # NoHandle
    THEN [Log(Log(S, "WaitForSingleObject", exited), "CloseHandle", TRUE)
             EXCEPT !.thread_handles = @ \ {S.consume_thread},
                    !.consume_thread = NoHandle]
    ELSE S

\* etw_session_stop, step 3: unless the session handle is zero, the kernel
\* session is stopped and the handle zeroed; stop_ok tells whether the stop
\* reports success or ERROR_WMI_INSTANCE_NOT_FOUND.
etw_session_stop_session(S, stop_ok) ==
    IF S.session_handle # 0
    THEN [S |-> [StopByHandle(S, stop_ok) EXCEPT !.session_handle = 0],
          ret |-> IF stop_ok THEN EDR_SUCCESS ELSE EDR_ERROR_ETW_STOP_FAILED]
    ELSE [S |-> S, ret |-> EDR_SUCCESS]

\* The session structure, the operating system objects and the call log
\* become S.
SetSessionState(S) ==
    /\ session_handle' = S.session_handle
    /\ trace_handle' = S.trace_handle
    /\ consume_thread' = S.consume_thread
    /\ is_running' = S.is_running
    /\ restart_count' = S.restart_count
    /\ callback' = S.callback
    /\ os_session' = S.os_session
    /\ sessions_created' = S.sessions_created
    /\ open_traces' = S.open_traces
    /\ traces_opened' = S.traces_opened
    /\ live_threads' = S.live_threads
    /\ thread_handles' = S.thread_handles
    /\ threads_created' = S.threads_created
    /\ thread_trace' = S.thread_trace
    /\ s_calls' = S.calls

\* What a session call leaves alone: the queue and the consumer.
nonSessionVars == <<bufVars, prodVars, consVars, histVars, cacheVars, osVars,
                    lookupVars, cbVars, colVars, ringVars, moreVars>>

\* The state a call starts from: its log of operating system calls is empty.
CallState == [SessionState EXCEPT !.calls = <<>>]

\* A call of etw_session_start.
SessionStart(session_null, cb, r1, stop_ok, r2, enable_ok, open_ok, thread_ok, cleanup_ok) ==
    /\ s_pc = "idle"
    /\ starts < MaxStarts
    /\ ~InvalidStartArgs(session_null, cb) =>
          /\ StartTracePossible(SessionState, r1)
          /\ r1 = "exists" =>
                StartTracePossible(StopByName(SessionState, stop_ok), r2)
    /\ LET o == etw_session_start(CallState, session_null, cb, r1, stop_ok,
                                  r2, enable_ok, open_ok, thread_ok,
                                  cleanup_ok)
       IN  /\ SetSessionState(o.S) /\ s_ret' = o.ret
           /\ cycle' = IF InvalidStartArgs(session_null, cb) THEN cycle
                       ELSE IF cycle # "stopped" THEN "broken"
                       ELSE IF o.ret = EDR_SUCCESS THEN "started"
                       ELSE "stopped"
    /\ starts' = starts + 1
    /\ s_op' = "start"
    /\ s_was_running' = (is_running = 1)
    /\ s_null' = session_null
    /\ s_cb' = cb
    /\ restart_due' = FALSE
    /\ UNCHANGED <<nonSessionVars, s_pc, abnormal_exits>>

\* The results a call can meet: both if the call is made, one otherwise.
BoolIf(made) == IF made THEN BOOLEAN ELSE {TRUE}
ResultsIf(made) == IF made THEN StartTraceResults ELSE {"ok"}

\* etw_session_start with every argument and every result of the operating
\* system calls it comes to make.
SessionStartCall ==
    \E session_null \in BOOLEAN, cb \in {NoCallback, "etw_process_event_callback"} :
    \E r1 \in ResultsIf(~InvalidStartArgs(session_null, cb)) :
    \E stop_ok \in BoolIf(r1 = "exists"), r2 \in ResultsIf(r1 = "exists") :
    LET created == /\ ~InvalidStartArgs(session_null, cb)
                   /\ (IF r1 = "exists" THEN r2 ELSE r1) = "ok"
    IN  \E enable_ok \in BoolIf(created) :
        \E open_ok \in BoolIf(created /\ enable_ok) :
        \E thread_ok \in BoolIf(created /\ enable_ok /\ open_ok) :
        \E cleanup_ok \in BoolIf(created /\ ~(enable_ok /\ open_ok /\ thread_ok)) :
           SessionStart(session_null, cb, r1, stop_ok, r2, enable_ok,
                        open_ok, thread_ok, cleanup_ok)

\* The consumption thread t can return from ProcessTrace without an error:
\* its trace is closed, or no kernel session feeds it any more.
CanReturn(t) ==
    IF thread_trace[t] \notin open_traces THEN TRUE ELSE os_session = 0

\* etw_session_stop up to the wait: the early return of a session that is
\* not running, else step 1.
StopBegin ==
    /\ s_pc = "idle"
    /\ s_op' = "stop"
    /\ s_was_running' = (is_running = 1)
    /\ restart_due' = FALSE
    /\ IF is_running = 0
       THEN /\ s_calls' = <<>>
            /\ s_ret' = EDR_SUCCESS
            /\ cycle' = IF cycle = "started" THEN "stopped" ELSE cycle
            /\ UNCHANGED <<sessVars, etwVars, s_pc>>
       ELSE /\ SetSessionState(etw_session_stop_trace(CallState))
            /\ s_pc' = "wait"
            /\ UNCHANGED <<s_ret, cycle>>
    /\ UNCHANGED <<nonSessionVars, starts, s_null, s_cb, abnormal_exits>>

\* etw_session_stop, step 2: the wait ends because the consumption thread
\* has exited, or it ends after 5 seconds while the thread still runs.
StopWait ==
    /\ s_pc = "wait"
    /\ SetSessionState(etw_session_stop_thread(SessionState,
                                               consume_thread \notin live_threads))
    /\ s_pc' = "control"
    /\ UNCHANGED <<nonSessionVars, restartVars, starts, s_op, s_was_running,
                   s_ret, s_null, s_cb, cycle>>

\* etw_session_stop, step 3 and the return.
StopControl(stop_ok) ==
    /\ s_pc = "control"
    /\ LET o == etw_session_stop_session(SessionState, stop_ok)
       IN  /\ SetSessionState(o.S) /\ s_ret' = o.ret
           /\ cycle' = IF cycle # "started" THEN cycle
                       ELSE IF o.ret = EDR_SUCCESS THEN "stopped"
                       ELSE "broken"
    /\ s_pc' = "idle"
    /\ UNCHANGED <<nonSessionVars, restartVars, starts, s_op, s_was_running,
                   s_null, s_cb>>

StopControls == \E stop_ok \in BOOLEAN : StopControl(stop_ok)

\* consume_thread_func: ProcessTrace returns ERROR_SUCCESS or
\* ERROR_CANCELLED, the thread returns.
ThreadReturn(t) ==
    /\ t \in live_threads
    /\ CanReturn(t)
    /\ live_threads' = live_threads \ {t}
    /\ UNCHANGED <<nonSessionVars, sessVars, callVars, restartVars,
                   os_session, sessions_created, open_traces, traces_opened,
                   thread_handles, threads_created, thread_trace>>

\* Mutant: the restart is counted without regard to the maximum.
CountRestartUnbounded(n) == n + 1

\* if (restart_count < ETW_MAX_RESTART_RETRY) restart_count++
CountRestart(n) == IF n < ETW_MAX_RESTART_RETRY THEN n + 1 ELSE n

\* consume_thread_func: ProcessTrace returns another status: the session is
\* marked not running and the restart is counted (the restart itself is not
\* implemented), the thread returns.
ThreadFail(t) ==
    /\ t \in live_threads
    /\ is_running' = 0
    /\ restart_count' = CountRestart(restart_count)
    /\ live_threads' = live_threads \ {t}
    /\ abnormal_exits' = abnormal_exits + 1
    /\ restart_due' = (restart_due \/ restart_count < ETW_MAX_RESTART_RETRY)
    /\ UNCHANGED <<nonSessionVars, callVars, session_handle, trace_handle,
                   consume_thread, callback, os_session, sessions_created,
                   open_traces, traces_opened, thread_handles,
                   threads_created, thread_trace>>

ThreadReturns == \E t \in live_threads : ThreadReturn(t)
ThreadFails == \E t \in live_threads : ThreadFail(t)

\* A session of the same name, left by an earlier run of the agent, exists
\* before the first start.
StaleSession ==
    /\ starts = 0
    /\ os_session = 0
    /\ os_session' = sessions_created + 1
    /\ sessions_created' = sessions_created + 1
    /\ UNCHANGED <<nonSessionVars, sessVars, callVars, restartVars,
                   open_traces, traces_opened, live_threads, thread_handles,
                   threads_created, thread_trace>>

NextSession ==
    \/ SessionStartCall
    \/ StopBegin
    \/ StopWait
    \/ StopControls
    \/ ThreadReturns
    \/ ThreadFails
    \/ StaleSession

SpecSession == Init /\ [][NextSession]_vars

\* ------------------------------------------------------- claims: session
\* C20: an etw_session_start call (non-null callback) made while the session
\* is running fails, and leaves the session structure and the kernel
\* session, the traces and the threads of the operating system as they were.
C20_StartWhileRunning ==
    [][(s_op' = "start" /\ starts' = starts + 1 /\ is_running = 1
        /\ callback' # NoCallback) =>
          /\ s_ret' # EDR_SUCCESS
          /\ UNCHANGED <<session_handle, trace_handle, consume_thread,
                         is_running>>
          /\ UNCHANGED <<os_session, open_traces, live_threads,
                         thread_handles>>
      ]_vars

\* A step that is a call of etw_session_start.
StartStep == s_op' = "start" /\ starts' = starts + 1

\* C21: an etw_session_start call with a NULL session or a NULL callback
\* returns EDR_ERROR_INVALID_PARAM, makes no operating system call and
\* leaves the session structure (the stored callback included) and the
\* kernel session, the traces and the threads as they were.
C21_NullArgsRejected ==
    [][(StartStep /\ (s_null' \/ s_cb' = NoCallback)) =>
          /\ s_ret' = EDR_ERROR_INVALID_PARAM
          /\ s_calls' = <<>>
          /\ UNCHANGED <<sessVars, etwVars>>
      ]_vars

\* A running session, with a callback stored, has rejected such a call.
C21_Witness ==
    /\ s_op = "start" /\ s_pc = "idle"
    /\ s_null \/ s_cb = NoCallback
    /\ s_ret = EDR_ERROR_INVALID_PARAM
    /\ is_running = 1 /\ callback # NoCallback
    /\ consume_thread \in live_threads

\* The names of the operating system calls in a call log, in order.
LogNames(q) == [i \in DOMAIN q |-> q[i][1]]

\* The steps of an etw_session_stop call on a running session.
StopTraceStep == s_pc = "idle" /\ s_pc' = "wait"
StopWaitStep == s_pc = "wait" /\ s_pc' = "control"
StopReturnStep == s_pc = "control" /\ s_pc' = "idle"

\* C22: etw_session_stop on a running session first closes the trace handle,
\* touching neither the thread handle nor the kernel session; it waits for
\* the consumption thread only with the trace handle closed and zeroed, the
\* kernel session still untouched; it stops the kernel session only after
\* the wait has ended and the thread handle is closed; and when it returns
\* is_running, trace_handle, consume_thread and session_handle are zero.
C22_StopOrder ==
    [][/\ StopTraceStep =>
             /\ is_running = 1 /\ is_running' = 0
             /\ trace_handle' = 0 /\ trace_handle \notin open_traces'
             /\ UNCHANGED <<consume_thread, thread_handles, session_handle,
                            os_session>>
       /\ StopWaitStep =>
             /\ trace_handle = 0
             /\ LogNames(s_calls') =
                   <<"CloseTrace", "WaitForSingleObject", "CloseHandle">>
             /\ UNCHANGED <<session_handle, os_session>>
       /\ StopReturnStep =>
             /\ trace_handle = 0 /\ consume_thread = NoHandle
             /\ LogNames(s_calls') =
                   <<"CloseTrace", "WaitForSingleObject", "CloseHandle",
                     "ControlTraceW(handle)">>
             /\ is_running' = 0 /\ trace_handle' = 0
             /\ consume_thread' = NoHandle /\ session_handle' = 0
      ]_vars

\* A stop of a running session has returned: all four calls were made, the
\* thread had exited and the kernel session is gone.
C22_Witness ==
    /\ s_op = "stop" /\ s_pc = "idle" /\ s_was_running
    /\ Len(s_calls) = 4 /\ s_calls[2] = <<"WaitForSingleObject", TRUE>>
    /\ s_ret = EDR_SUCCESS /\ os_session = 0 /\ live_threads = {}

\* The wait of the etw_session_stop call in progress ended after 5 seconds
\* with the consumption thread still running.
WaitTimedOut ==
    \E i \in DOMAIN s_calls :
       s_calls[i][1] = "WaitForSingleObject" /\ s_calls[i][2] = FALSE

\* C23: an etw_session_stop call whose wait ended with the consumption
\* thread still running does not return EDR_SUCCESS.
C23_TimeoutSurfaced ==
    [][(StopReturnStep /\ WaitTimedOut) => s_ret' # EDR_SUCCESS]_vars

\* A step in which a consumption thread returns abnormally.
AbnormalExitStep == abnormal_exits' = abnormal_exits + 1

SpecSessionLive ==
    /\ SpecSession
    /\ WF_vars(ThreadReturns)
    /\ WF_vars(StopWait)
    /\ WF_vars(StopControls)

\* The session is running and its consumption thread processes the trace.
Consuming == is_running = 1 /\ consume_thread \in live_threads

\* C25: after a consumption thread has exited abnormally with restart_count
\* below the maximum, the session eventually is running again with a
\* consumption thread, unless the caller makes a call first.
C25_AutoRestart == restart_due ~> (Consuming \/ ~restart_due)

\* Every release call (CloseTrace, stop of the kernel session by handle) of
\* the last call succeeded.
ReleasesSucceeded ==
    \A i \in DOMAIN s_calls :
       s_calls[i][1] \in {"CloseTrace", "ControlTraceW(handle)"} =>
          s_calls[i][2] = TRUE

\* A step that is an etw_session_start call failing at one of its four
\* steps: creating the session, enabling the provider, opening the trace,
\* creating the thread.
FailedStartStep ==
    /\ StartStep
    /\ s_ret' \notin {EDR_SUCCESS, EDR_ERROR_INVALID_PARAM}

\* C26: when etw_session_start fails at one of its steps (its release calls
\* succeeding), the kernel session and the trace it created are released
\* and it created no thread, is_running is 0 and no consumption thread
\* exists.
C26_FailedStartLeaksNothing ==
    [][(FailedStartStep /\ ReleasesSucceeded') =>
          /\ sessions_created' # sessions_created =>
                os_session' # sessions_created'
          /\ traces_opened' # traces_opened =>
                traces_opened' \notin open_traces'
          /\ threads_created' = threads_created
          /\ is_running' = 0
          /\ live_threads' = {}
      ]_vars

\* The results of the calls of the given name in a call log, in order.
ResultsOf(q, name) ==
    LET sel == SelectSeq(q, LAMBDA e : e[1] = name)
    IN  [i \in DOMAIN sel |-> sel[i][2]]

\* The code the results of the operating system calls of an
\* etw_session_start call stand for: creates are the results of StartTraceW,
\* the others those of EnableTraceEx2, OpenTraceW and CreateThread, empty if
\* the call was not made.
Classified(creates, enables, opens, threads) ==
    IF creates[Len(creates)] = "denied" THEN EDR_ERROR_ETW_ACCESS_DENIED
    ELSE IF creates[Len(creates)] # "ok" THEN EDR_ERROR_ETW_CREATE_FAILED
    ELSE IF enables = <<FALSE>> THEN EDR_ERROR_ETW_ENABLE_FAILED
    ELSE IF opens = <<FALSE>> \/ threads = <<FALSE>>
    THEN EDR_ERROR_ETW_START_FAILED
    ELSE EDR_SUCCESS

\* C27: an etw_session_start call with valid arguments calls StartTraceW
\* once, and once more, after one stop by name, exactly if the first result
\* was ERROR_ALREADY_EXISTS; it returns EDR_ERROR_ETW_ACCESS_DENIED if the
\* last StartTraceW was denied, EDR_ERROR_ETW_CREATE_FAILED if it failed
\* otherwise, EDR_ERROR_ETW_ENABLE_FAILED if EnableTraceEx2 failed,
\* EDR_ERROR_ETW_START_FAILED if OpenTraceW or CreateThread failed, and
\* EDR_SUCCESS if none did.
C27_FailuresClassified ==
    [][(StartStep /\ ~s_null' /\ s_cb' # NoCallback) =>
          LET creates == ResultsOf(s_calls', "StartTraceW")
              stops == ResultsOf(s_calls', "ControlTraceW(name)")
          IN  /\ Len(creates) \in {1, 2}
              /\ Len(stops) = Len(creates) - 1
              /\ Len(creates) = 2 <=> creates[1] = "exists"
              /\ s_ret' = Classified(creates,
                                     ResultsOf(s_calls', "EnableTraceEx2"),
                                     ResultsOf(s_calls', "OpenTraceW"),
                                     ResultsOf(s_calls', "CreateThread"))
      ]_vars

\* The retry after stopping a stale session was denied, and so reported.
C27_Witness ==
    /\ s_op = "start"
    /\ ResultsOf(s_calls, "StartTraceW") = <<"exists", "denied">>
    /\ ResultsOf(s_calls, "ControlTraceW(name)") = <<TRUE>>
    /\ s_ret = EDR_ERROR_ETW_ACCESS_DENIED

\* Every operating system call of the last call succeeded.
CallsSucceeded ==
    \A i \in DOMAIN s_calls :
       IF s_calls[i][1] = "StartTraceW" THEN s_calls[i][2] = "ok"
       ELSE s_calls[i][2] = TRUE

\* C28: as long as the caller alternates successful starts and stops that
\* return EDR_SUCCESS, a
\* start with valid arguments all of whose operating system calls succeed
\* returns EDR_SUCCESS, the running session has exactly one consumption
\* thread, the one in consume_thread, and after a stop there is none.
C28_StartStopCycles ==
    /\ (cycle # "broken" /\ s_op = "start" /\ ~s_null /\ s_cb # NoCallback
        /\ CallsSucceeded) => s_ret = EDR_SUCCESS
    /\ (cycle = "started" /\ is_running = 1) =>
          live_threads = {consume_thread}
    /\ (cycle = "stopped" /\ s_pc = "idle") => live_threads = {}

\* A step in which etw_session_stop returns EDR_SUCCESS: at once, for a
\* session that is not running, or after its third step.
StopSucceededStep ==
    /\ s_pc' = "idle" /\ s_op' = "stop" /\ s_ret' = EDR_SUCCESS
    /\ \/ s_pc = "control"
       \/ s_pc = "idle" /\ s_calls' = <<>> /\ s_was_running' = (is_running = 1)

\* The session with the fields S holds an operating system resource that
\* is open in the state E of the operating system: its trace handle, its
\* thread handle or the kernel session of its session handle.
HoldsOpen(S, E) ==
    \/ S.trace_handle \in E.open_traces
    \/ S.consume_thread \in E.thread_handles
    \/ S.session_handle # 0 /\ S.session_handle = E.os_session

\* C35: whenever etw_session_stop returns EDR_SUCCESS the session holds no
\* open resource: the trace is closed, the kernel session is stopped and
\* the thread handle is released, neither the handles the session held at
\* the call nor those it holds at the return being open.
C35_StopReleasesAll ==
    [][StopSucceededStep =>
          LET E1 == [open_traces |-> open_traces',
                     thread_handles |-> thread_handles',
                     os_session |-> os_session']
          IN  /\ ~HoldsOpen([trace_handle |-> trace_handle,
                             consume_thread |-> consume_thread,
                             session_handle |-> session_handle], E1)
              /\ ~HoldsOpen([trace_handle |-> trace_handle',
                             consume_thread |-> consume_thread',
                             session_handle |-> session_handle'], E1)
      ]_vars

(***************************************************************************)
(* Part 6: the collector interface of common/edr_core.c.  Every call of    *)
(* edr_start_process_collector builds an etw_session_t of its own and      *)
(* starts it under the one name ETW_SESSION_NAME; the kernel session, the  *)
(* traces and the threads of the operating system are shared.  A call is   *)
(* one action; the consumption threads are as in part 5.                   *)
(***************************************************************************)

\* The fields etw_session_init gives a new etw_session_t.
NewSession ==
    [session_handle |-> 0, trace_handle |-> 0, consume_thread |-> NoHandle,
     is_running |-> 0, restart_count |-> 0, callback |-> NoCallback]

\* The etw_session_t with the fields f, the operating system objects and an
\* empty call log, as one record.
CollectorState(f) ==
    [session_handle |-> f.session_handle, trace_handle |-> f.trace_handle,
     consume_thread |-> f.consume_thread, is_running |-> f.is_running,
     restart_count |-> f.restart_count, callback |-> f.callback,
     os_session |-> os_session, sessions_created |-> sessions_created,
     open_traces |-> open_traces, traces_opened |-> traces_opened,
     live_threads |-> live_threads, thread_handles |-> thread_handles,
     threads_created |-> threads_created, thread_trace |-> thread_trace,
     calls |-> <<>>]

\* The fields of the etw_session_t in S.
SessionFields(S) ==
    [session_handle |-> S.session_handle, trace_handle |-> S.trace_handle,
     consume_thread |-> S.consume_thread, is_running |-> S.is_running,
     restart_count |-> S.restart_count, callback |-> S.callback]

\* The operating system objects become those of S.
SetSystemState(S) ==
    /\ os_session' = S.os_session
    /\ sessions_created' = S.sessions_created
    /\ open_traces' = S.open_traces
    /\ traces_opened' = S.traces_opened
    /\ live_threads' = S.live_threads
    /\ thread_handles' = S.thread_handles
    /\ threads_created' = S.threads_created
    /\ thread_trace' = S.thread_trace

\* etw_session_stop(session) as one call, session non-null, run on the state
\* S: the early return of a session that is not running, else the three
\* steps.  A consumption thread that exits during the wait is gone.
etw_session_stop(S, exited, stop_ok) ==
    IF S.is_running = 0
    THEN [S |-> S, ret |-> EDR_SUCCESS]
    ELSE LET A == etw_session_stop_trace(S)
             B == etw_session_stop_thread(A, exited)
             C == IF exited
                  THEN [B EXCEPT !.live_threads = @ \ {S.consume_thread}]
                  ELSE B
         IN  etw_session_stop_session(C, stop_ok)

\* etw_session_destroy(session): a session still running is stopped; then
\* the structure is freed.  The value is the state of the system reached.
etw_session_destroy(S, exited, stop_ok) ==
    IF S.is_running # 0 THEN etw_session_stop(S, exited, stop_ok).S ELSE S

\* The collectors cs without the one of handle h (free).
Without(cs, h) == [k \in (DOMAIN cs) \ {h} |-> cs[k]]

\* What a collector call leaves alone.
nonCollectorVars == <<bufVars, prodVars, consVars, histVars, cacheVars,
                      osVars, lookupVars, cbVars, sessVars, callVars,
                      restartVars, ringVars, moreVars>>

\* edr_start_process_collector(out_handle) after edr_core_init.  out_null
\* tells whether out_handle is NULL, mem_ok whether the three allocations
\* succeed; the other inputs are the results etw_session_start meets.
edr_start_process_collector(out_null, mem_ok, r1, stop_ok, r2, enable_ok, open_ok, thread_ok, cleanup_ok) ==
    /\ col_calls < MaxCollectors
    /\ col_calls' = col_calls + 1
    /\ col_op' = "start"
    /\ IF out_null \/ ~mem_ok
       THEN /\ col_ret' = IF out_null THEN EDR_ERR_INVALID_PARAM
                          ELSE EDR_ERR_NO_MEMORY
            /\ col_handle' = 0
            /\ UNCHANGED <<collectors, etwVars>>
       ELSE /\ StartTracePossible(CollectorState(NewSession), r1)
            /\ r1 = "exists" =>
                  StartTracePossible(
                     StopByName(CollectorState(NewSession), stop_ok), r2)
            /\ LET o == etw_session_start(CollectorState(NewSession), FALSE,
                                          "etw_process_event_callback", r1,
                                          stop_ok, r2, enable_ok, open_ok,
                                          thread_ok, cleanup_ok)
                   h == col_calls + 1
               IN  IF o.ret # EDR_SUCCESS
                   THEN /\ SetSystemState(etw_session_destroy(o.S, TRUE, TRUE))
                        /\ col_ret' = o.ret
                        /\ col_handle' = 0
                        /\ UNCHANGED collectors
                   ELSE /\ SetSystemState(o.S)
                        /\ collectors' = collectors @@ (h :> SessionFields(o.S))
                        /\ col_ret' = EDR_SUCCESS
                        /\ col_handle' = h
    /\ UNCHANGED <<nonCollectorVars, freed_access>>

StartCollector ==
    \E out_null \in BOOLEAN : \E mem_ok \in BoolIf(~out_null) :
    \E r1 \in ResultsIf(~out_null /\ mem_ok) :
    \E stop_ok \in BoolIf(r1 = "exists"), r2 \in ResultsIf(r1 = "exists") :
    LET created == /\ ~out_null /\ mem_ok
                   /\ (IF r1 = "exists" THEN r2 ELSE r1) = "ok"
    IN  \E enable_ok \in BoolIf(created) :
        \E open_ok \in BoolIf(created /\ enable_ok) :
        \E thread_ok \in BoolIf(created /\ enable_ok /\ open_ok) :
        \E cleanup_ok \in BoolIf(created /\ ~(enable_ok /\ open_ok /\ thread_ok)) :
           edr_start_process_collector(out_null, mem_ok, r1, stop_ok, r2,
                                       enable_ok, open_ok, thread_ok,
                                       cleanup_ok)

\* edr_stop_process_collector(handle): NULL (h = 0) is refused; else the
\* session of the collector is stopped and destroyed and the collector
\* freed, whatever etw_session_stop returned.  exited tells whether the
\* consumption thread has exited when the wait ends.
edr_stop_process_collector(h, exited, stop_ok) ==
    /\ col_op' = "stop"
    /\ col_handle' = h
    /\ IF h = 0
       THEN /\ col_ret' = EDR_ERR_INVALID_PARAM
            /\ UNCHANGED <<collectors, etwVars>>
       ELSE /\ h \in DOMAIN collectors
            /\ ~exited => /\ collectors[h].is_running = 1
                          /\ collectors[h].consume_thread \in live_threads
            /\ LET o == etw_session_stop(CollectorState(collectors[h]),
                                         exited, stop_ok)
               IN  SetSystemState(etw_session_destroy(o.S, TRUE, TRUE))
            /\ collectors' = Without(collectors, h)
            /\ col_ret' = EDR_SUCCESS
    /\ UNCHANGED <<nonCollectorVars, col_calls, freed_access>>

StopCollector ==
    \E h \in {0} \cup DOMAIN collectors :
    \E exited \in BOOLEAN, stop_ok \in BoolIf(h # 0) :
       edr_stop_process_collector(h, exited, stop_ok)

\* The collectors whose session the consumption thread t was given.
OwnersOf(t) == {h \in DOMAIN collectors : collectors[h].consume_thread = t}

\* consume_thread_func of a collector's session: ProcessTrace returns a
\* status other than ERROR_SUCCESS and ERROR_CANCELLED.  The thread writes
\* is_running and restart_count of its session, which may have been freed.
CollectorThreadFail(t) ==
    /\ t \in live_threads
    /\ live_threads' = live_threads \ {t}
    /\ collectors' =
          [h \in DOMAIN collectors |->
              IF h \in OwnersOf(t)
              THEN [collectors[h] EXCEPT
                       !.is_running = 0,
                       !.restart_count = CountRestart(@)]
              ELSE collectors[h]]
    /\ freed_access' = (freed_access \/ OwnersOf(t) = {})
    /\ UNCHANGED <<nonCollectorVars, col_calls, col_op, col_handle, col_ret,
                   os_session, sessions_created, open_traces, traces_opened,
                   thread_handles, threads_created, thread_trace>>

CollectorThreadFails == \E t \in live_threads : CollectorThreadFail(t)

NextCollector ==
    \/ StartCollector
    \/ StopCollector
    \/ ThreadReturns
    \/ CollectorThreadFails

SpecCollector == Init /\ [][NextCollector]_vars

\* ----------------------------------------------------- claims: collector
\* A step that is a call of edr_start_process_collector.
StartCollectorStep == col_op' = "start" /\ col_calls' = col_calls + 1

\* C29: an edr_start_process_collector call made while a collector of an
\* earlier call is not yet stopped fails and leaves that collector, the
\* kernel session, the traces and the threads as they were; at most one
\* collector is active and at most one consumption thread runs.
C29_SingleCollector ==
    [][/\ (StartCollectorStep /\ DOMAIN collectors # {}) =>
             /\ col_ret' # EDR_SUCCESS
             /\ UNCHANGED <<collectors, etwVars>>
       /\ Cardinality(DOMAIN collectors') <= 1
       /\ Cardinality(live_threads') <= 1
      ]_vars

\* C36: no consumption thread reads or writes the etw_session_t it was
\* given after edr_stop_process_collector has freed it, whether the wait
\* in etw_session_stop ended with the thread's exit or with its time limit.
C36_NoUseAfterFree == ~freed_access

(***************************************************************************)
(* Part 7: the pointer ring buffer (queue/ring_buffer.c), a single-        *)
(* producer / single-consumer queue of event pointers.  ring_buffer_push   *)
(* and ring_buffer_pop run on different threads and are modelled one       *)
(* access to shared memory per action.  The indices are unsigned integers  *)
(* of RingIndexBits bits that wrap around; each index has one writer, and  *)
(* the release store and acquire load of it order the slot accesses, so    *)
(* the accesses are taken in program order.                                *)
(***************************************************************************)

\* a - b in the unsigned arithmetic of the indices.
IndexSub(a, b) == (a - b) % IndexRange

\* a + 1 in the unsigned arithmetic of the indices.
IndexInc(a) == (a + 1) % IndexRange

\* Mutant: every index is mapped to the first slot.
SlotIndexFirst(i) == 0

\* i & rb->mask, the mask being capacity - 1 and capacity a power of two.
SlotIndex(i) == i % capacity

\* Mutant: one slot is kept free.
RingFullOneFree(h, t) == IndexSub(h, t) >= capacity - 1

\* head - tail >= rb->capacity, on the indices ring_buffer_push loaded.
RingFull(h, t) == IndexSub(h, t) >= capacity

\* ring_buffer_is_full, ring_buffer_is_empty and ring_buffer_size, on the
\* indices they loaded.
ring_buffer_is_full(h, t) == IndexSub(h, t) >= capacity
ring_buffer_is_empty(h, t) == t = h
ring_buffer_size(h, t) == IndexSub(h, t)

\* What the ring buffer operations leave alone.
nonRingVars == <<bufVars, prodVars, consVars, histVars, cacheVars, osVars,
                 lookupVars, cbVars, sessVars, etwVars, callVars,
                 restartVars, colVars, moreVars>>

\* ring_buffer_push(rb, event) up to the check: a NULL event is refused;
\* else head and tail are loaded, and a full queue is reported.
RingPushBegin(null_event) ==
    /\ push_pc = "idle"
    /\ IF null_event
       THEN /\ push_ret' = EDR_ERR_INVALID_PARAM
            /\ UNCHANGED <<push_pc, push_event, push_head, push_tail,
                           ring_pushes>>
       ELSE /\ ring_pushes < MaxRingPushes
            /\ ring_pushes' = ring_pushes + 1
            /\ push_event' = ring_pushes + 1
            /\ push_head' = rb_head
            /\ push_tail' = rb_tail
            /\ IF RingFull(rb_head, rb_tail)
               THEN push_ret' = EDR_ERR_NO_MEMORY /\ UNCHANGED push_pc
               ELSE push_pc' = "store" /\ UNCHANGED push_ret
    /\ UNCHANGED <<nonRingVars, rb_accepted, rb_popped, rb_slots, rb_head, rb_tail, pop_pc, pop_tail,
                   pop_head, pop_event, pop_ret>>

RingPushCall == \E null_event \in BOOLEAN : RingPushBegin(null_event)

\* rb->slots[head & mask] = event
RingPushStore ==
    /\ push_pc = "store"
    /\ rb_slots' = [rb_slots EXCEPT ![SlotIndex(push_head)] = push_event]
    /\ push_pc' = "publish"
    /\ UNCHANGED <<nonRingVars, rb_accepted, rb_popped, rb_head, rb_tail, push_event, push_head,
                   push_tail, push_ret, ring_pushes, pop_pc, pop_tail,
                   pop_head, pop_event, pop_ret>>

\* The release store of head + 1, and the return of EDR_OK.
RingPushPublish ==
    /\ push_pc = "publish"
    /\ rb_head' = IndexInc(push_head)
    /\ push_ret' = EDR_OK
    /\ push_pc' = "idle"
    /\ rb_accepted' = Append(rb_accepted, push_event)
    /\ UNCHANGED <<nonRingVars, rb_popped, rb_slots, rb_tail, push_event, push_head,
                   push_tail, ring_pushes, pop_pc, pop_tail, pop_head,
                   pop_event, pop_ret>>

\* ring_buffer_pop(rb) up to the check: tail and head are loaded, and NULL
\* is returned if they are equal.
RingPopBegin ==
    /\ pop_pc = "idle"
    /\ pop_tail' = rb_tail
    /\ pop_head' = rb_head
    /\ IF rb_tail = rb_head
       THEN pop_ret' = NoEvent /\ UNCHANGED pop_pc
       ELSE pop_pc' = "read" /\ UNCHANGED pop_ret
    /\ UNCHANGED <<nonRingVars, rb_accepted, rb_popped, rb_slots, rb_head, rb_tail, push_pc,
                   push_event, push_head, push_tail, push_ret, ring_pushes,
                   pop_event>>

\* event = rb->slots[tail & mask]
RingPopRead ==
    /\ pop_pc = "read"
    /\ pop_event' = rb_slots[SlotIndex(pop_tail)]
    /\ pop_pc' = "clear"
    /\ UNCHANGED <<nonRingVars, rb_accepted, rb_popped, rb_slots, rb_head, rb_tail, push_pc,
                   push_event, push_head, push_tail, push_ret, ring_pushes,
                   pop_tail, pop_head, pop_ret>>

\* rb->slots[tail & mask] = NULL
RingPopClear ==
    /\ pop_pc = "clear"
    /\ rb_slots' = [rb_slots EXCEPT ![SlotIndex(pop_tail)] = NoEvent]
    /\ pop_pc' = "publish"
    /\ UNCHANGED <<nonRingVars, rb_accepted, rb_popped, rb_head, rb_tail, push_pc, push_event,
                   push_head, push_tail, push_ret, ring_pushes, pop_tail,
                   pop_head, pop_event, pop_ret>>

\* The release store of tail + 1, and the return of the event.
RingPopPublish ==
    /\ pop_pc = "publish"
    /\ rb_tail' = IndexInc(pop_tail)
    /\ pop_ret' = pop_event
    /\ pop_pc' = "idle"
    /\ rb_popped' = Append(rb_popped, pop_event)
    /\ UNCHANGED <<nonRingVars, rb_accepted, rb_slots, rb_head, push_pc, push_event,
                   push_head, push_tail, push_ret, ring_pushes, pop_tail,
                   pop_head, pop_event>>

NextRing ==
    \/ RingPushCall
    \/ RingPushStore
    \/ RingPushPublish
    \/ RingPopBegin
    \/ RingPopRead
    \/ RingPopClear
    \/ RingPopPublish

SpecRing == Init /\ [][NextRing]_vars

\* -------------------------------------------------- claims: ring buffer
\* A step that is the check of a ring_buffer_push call with an event.
RingPushCheckStep == ring_pushes' = ring_pushes + 1

\* C30: the occupancy head - tail, in the arithmetic of the indices, never
\* exceeds the capacity, and ring_buffer_size, ring_buffer_is_full and
\* ring_buffer_is_empty report it; a ring_buffer_push call with an event
\* goes on to store it exactly if the occupancy is below the capacity, and
\* then returns EDR_OK; otherwise it returns EDR_ERR_NO_MEMORY with head,
\* tail and every slot unchanged.
C30_RingOccupancy ==
    [][/\ (rb_head' - rb_tail') % IndexRange \in 0 .. capacity
       /\ ring_buffer_size(rb_head', rb_tail') =
             (rb_head' - rb_tail') % IndexRange
       /\ ring_buffer_is_full(rb_head', rb_tail') <=>
             (rb_head' - rb_tail') % IndexRange = capacity
       /\ ring_buffer_is_empty(rb_head', rb_tail') <=>
             (rb_head' - rb_tail') % IndexRange = 0
       /\ RingPushCheckStep =>
             IF (rb_head - rb_tail) % IndexRange < capacity
             THEN push_pc' = "store"
             ELSE /\ push_pc' = "idle"
                  /\ push_ret' = EDR_ERR_NO_MEMORY
                  /\ UNCHANGED <<rb_head, rb_tail, rb_slots>>
       /\ (push_pc = "publish" /\ push_pc' = "idle") => push_ret' = EDR_OK
      ]_vars

\* A push on a full queue was refused after the indices wrapped around:
\* every slot holds an event and head is numerically below tail.
C30_Witness ==
    /\ push_pc = "idle" /\ push_ret = EDR_ERR_NO_MEMORY
    /\ ring_buffer_size(rb_head, rb_tail) = capacity
    /\ \A i \in DOMAIN rb_slots : rb_slots[i] # NoEvent
    /\ rb_head < rb_tail
    /\ push_event = ring_pushes

\* q is an initial part of r.
IsPrefix(q, r) == Len(q) <= Len(r) /\ \A i \in 1 .. Len(q) : q[i] = r[i]

\* A step that is the return of an event by ring_buffer_pop.
RingPopReturnStep == pop_pc = "publish" /\ pop_pc' = "idle"

\* C31: with one producer and one consumer running concurrently, the
\* events ring_buffer_pop returns are, in order, the events whose push was
\* accepted, each once: the k-th event popped is the k-th event accepted,
\* and never NULL; and a pop that returned NULL had loaded equal tail and
\* head.  This includes the wrap of the slot index past the capacity and the
\* wrap of the head and tail counters.
C31_RingFifo ==
    [][/\ IsPrefix(rb_popped', rb_accepted')
       /\ RingPopReturnStep =>
             /\ Len(rb_popped) < Len(rb_accepted)
             /\ pop_ret' = rb_accepted[Len(rb_popped) + 1]
             /\ pop_ret' # NoEvent
             /\ rb_popped' = Append(rb_popped, pop_ret')
       /\ (pop_pc' = "idle" /\ pop_ret' = NoEvent) => pop_tail' = pop_head'
      ]_vars

\* Every event of the bound was accepted and popped, the last one after
\* both counters wrapped around, and a pop then returned NULL.
C31_Witness ==
    /\ Len(rb_popped) = MaxRingPushes
    /\ rb_popped = rb_accepted
    /\ rb_head = MaxRingPushes % IndexRange /\ rb_head < capacity
    /\ pop_pc = "idle" /\ pop_ret = NoEvent /\ pop_tail = rb_head

(***************************************************************************)
(* Part 8: the module manager (plugin/module_manager.c).  The manager is   *)
(* a static table without locking; each of its functions is one action.   *)
(* The callbacks of a module are the module's own code: what init, start   *)
(* and stop return is an input of the call that makes them.                *)
(***************************************************************************)

\* What a module callback returns.
CallbackResults == {EDR_OK, EDR_ERR_UNKNOWN}
\* The result of the callback of the module in each slot.
SlotResults == [0 .. MAX_MODULES - 1 -> CallbackResults]

\* g_manager as a record.
ManagerState ==
    [modules |-> g_modules, count |-> g_count, initialized |-> g_initialized]

\* The result of a manager function: the manager, the return value and the
\* callbacks made.
Outcome(G, ret, calls) == [G |-> G, ret |-> ret, calls |-> calls]

\* The slots below count that hold the name.
SlotsNamed(G, name) ==
    {i \in 0 .. G.count - 1 :
        ~G.modules[i].ops.null /\ G.modules[i].ops.name = name}

\* find_module_index(name): the first slot below count with the name, -1
\* if there is none or the name is NULL.
find_module_index(G, name) ==
    IF name = NoName \/ SlotsNamed(G, name) = {} THEN -1
    ELSE CHOOSE i \in SlotsNamed(G, name) :
            \A j \in SlotsNamed(G, name) : i <= j

\* edr_module_manager_init()
edr_module_manager_init(G) ==
    IF G.initialized THEN Outcome(G, EDR_ERR_ALREADY_INITIALIZED, <<>>)
    ELSE Outcome([modules |-> [i \in 0 .. MAX_MODULES - 1 |-> ZeroModule],
                  count |-> 0, initialized |-> TRUE], EDR_OK, <<>>)

\* edr_module_register(ops)
edr_module_register(G, ops) ==
    IF ~G.initialized THEN Outcome(G, EDR_ERR_NOT_INITIALIZED, <<>>)
    ELSE IF ops.null \/ ops.name = NoName
    THEN Outcome(G, EDR_ERR_INVALID_PARAM, <<>>)
    ELSE IF find_module_index(G, ops.name) >= 0
    THEN Outcome(G, EDR_ERR_ALREADY_INITIALIZED, <<>>)
    ELSE IF G.count >= MAX_MODULES THEN Outcome(G, EDR_ERR_NO_MEMORY, <<>>)
    ELSE Outcome([G EXCEPT
                    !.modules[G.count] =
                        [ops |-> ops, initialized |-> FALSE,
                         running |-> FALSE],
                    !.count = G.count + 1], EDR_OK, <<>>)

\* edr_module_get(name): the ops of the module, NULL if there is none.
edr_module_get(G, name) ==
    IF ~G.initialized \/ find_module_index(G, name) < 0 THEN NoOps
    ELSE G.modules[find_module_index(G, name)].ops

\* edr_module_count()
edr_module_count(G) == IF ~G.initialized THEN 0 ELSE G.count

\* Mutant: the loop of edr_module_start_all ends at the first failure.
NextAfterFailureNone(i, cnt) == cnt

\* The slot edr_module_start_all goes on with after a failed init or start
\* (continue).
NextAfterFailure(i, cnt) == i + 1

\* The loop of edr_module_start_all from slot i on: init if not
\* initialized, then start if not running; a failure is remembered and the
\* loop continues with the next module.
RECURSIVE StartLoop(_, _, _, _, _, _)
StartLoop(G, i, result, calls, init_rs, start_rs) ==
    IF i >= G.count THEN Outcome(G, result, calls)
    ELSE LET e == G.modules[i]
             doInit == ~e.initialized /\ e.ops.init
             c1 == IF doInit
                   THEN Append(calls, <<"init", e.ops.name, init_rs[i]>>)
                   ELSE calls
             e1 == IF doInit THEN [e EXCEPT !.initialized = TRUE] ELSE e
             doStart == ~e1.running /\ e1.ops.start
             c2 == IF doStart
                   THEN Append(c1, <<"start", e.ops.name, start_rs[i]>>)
                   ELSE c1
             e2 == IF doStart /\ start_rs[i] = EDR_OK
                   THEN [e1 EXCEPT !.running = TRUE] ELSE e1
         IN  IF e.ops.null
             THEN StartLoop(G, i + 1, result, calls, init_rs, start_rs)
             ELSE IF doInit /\ init_rs[i] # EDR_OK
             THEN StartLoop(G, NextAfterFailure(i, G.count), init_rs[i], c1,
                            init_rs, start_rs)
             ELSE IF doStart /\ start_rs[i] # EDR_OK
             THEN StartLoop([G EXCEPT !.modules[i] = e2],
                            NextAfterFailure(i, G.count), start_rs[i], c2,
                            init_rs, start_rs)
             ELSE StartLoop([G EXCEPT !.modules[i] = e2], i + 1, result, c2,
                            init_rs, start_rs)

\* edr_module_start_all(config)
edr_module_start_all(G, init_rs, start_rs) ==
    IF ~G.initialized THEN Outcome(G, EDR_ERR_NOT_INITIALIZED, <<>>)
    ELSE StartLoop(G, 0, EDR_OK, <<>>, init_rs, start_rs)

\* Mutant: a module whose stop failed stays marked running.
AfterStopKeptOnError(e, err) ==
    IF err = EDR_OK THEN [e EXCEPT !.running = FALSE] ELSE e

\* The entry after its stop callback returned err: running is cleared.
AfterStop(e, err) == [e EXCEPT !.running = FALSE]

\* The loop of edr_module_stop_all, i counting down from count: the entry
\* i - 1 is stopped if it is running and has a stop callback.
RECURSIVE StopLoop(_, _, _, _, _)
StopLoop(G, i, result, calls, stop_rs) ==
    IF i <= 0 THEN Outcome(G, result, calls)
    ELSE LET e == G.modules[i - 1]
             doStop == ~e.ops.null /\ e.running /\ e.ops.stop
         IN  IF doStop
             THEN StopLoop([G EXCEPT !.modules[i - 1] =
                                        AfterStop(e, stop_rs[i - 1])],
                           i - 1,
                           IF stop_rs[i - 1] # EDR_OK THEN stop_rs[i - 1]
                           ELSE result,
                           Append(calls,
                                  <<"stop", e.ops.name, stop_rs[i - 1]>>),
                           stop_rs)
             ELSE StopLoop(G, i - 1, result, calls, stop_rs)

\* edr_module_stop_all()
edr_module_stop_all(G, stop_rs) ==
    IF ~G.initialized THEN Outcome(G, EDR_ERR_NOT_INITIALIZED, <<>>)
    ELSE StopLoop(G, G.count, EDR_OK, <<>>, stop_rs)

\* Mutant: the entries behind the removed one are not moved.
ShiftedNone(mods, index, cnt) == mods

\* The table after the loop of edr_module_unregister that moves the entries
\* behind index one slot down.
Shifted(mods, index, cnt) ==
    [i \in 0 .. MAX_MODULES - 1 |->
        IF i >= index /\ i < cnt - 1 THEN mods[i + 1] ELSE mods[i]]

\* edr_module_unregister(name): the module is stopped if it runs and has a
\* stop callback, cleaned up if it is initialized and has a cleanup
\* callback, and removed; the last used slot is zeroed.
edr_module_unregister(G, name, stop_r) ==
    IF ~G.initialized THEN Outcome(G, EDR_ERR_NOT_INITIALIZED, <<>>)
    ELSE IF find_module_index(G, name) < 0
    THEN Outcome(G, EDR_ERR_INVALID_PARAM, <<>>)
    ELSE LET index == find_module_index(G, name)
             e == G.modules[index]
             doStop == e.running /\ e.ops.stop
             c1 == IF doStop THEN <<<<"stop", e.ops.name, stop_r>>>> ELSE <<>>
             e1 == IF doStop THEN [e EXCEPT !.running = FALSE] ELSE e
             doCleanup == e1.initialized /\ e1.ops.cleanup
             c2 == IF doCleanup
                   THEN Append(c1, <<"cleanup", e.ops.name, EDR_OK>>)
                   ELSE c1
             e2 == IF doCleanup THEN [e1 EXCEPT !.initialized = FALSE]
                   ELSE e1
             moved == Shifted([G.modules EXCEPT ![index] = e2], index,
                              G.count)
         IN  Outcome([G EXCEPT
                        !.modules = [moved EXCEPT ![G.count - 1] = ZeroModule],
                        !.count = G.count - 1], EDR_OK, c2)

\* The cleanup loop of edr_module_manager_cleanup from slot i on.
RECURSIVE CleanupLoop(_, _, _)
CleanupLoop(G, i, calls) ==
    IF i >= G.count THEN Outcome(G, EDR_OK, calls)
    ELSE LET e == G.modules[i]
         IN  IF e.ops.null THEN CleanupLoop(G, i + 1, calls)
             ELSE CleanupLoop([G EXCEPT !.modules[i] = ZeroModule], i + 1,
                              IF e.initialized /\ e.ops.cleanup
                              THEN Append(calls,
                                          <<"cleanup", e.ops.name, EDR_OK>>)
                              ELSE calls)

\* edr_module_manager_cleanup(): edr_module_stop_all, then the cleanup of
\* every initialized module; the table is emptied.
edr_module_manager_cleanup(G, stop_rs) ==
    IF ~G.initialized THEN Outcome(G, EDR_OK, <<>>)
    ELSE LET stopped == edr_module_stop_all(G, stop_rs)
             cleaned == CleanupLoop(stopped.G, 0, stopped.calls)
         IN  Outcome([cleaned.G EXCEPT !.count = 0, !.initialized = FALSE],
                     EDR_OK, cleaned.calls)

\* What the module manager leaves alone.
nonManagerVars == <<bufVars, prodVars, consVars, histVars, cacheVars, osVars,
                    lookupVars, cbVars, sessVars, etwVars, callVars,
                    restartVars, colVars, ringVars, monVars, mon_max>>

\* A call of the module manager with outcome o.
ManagerCall(op, arg, o) ==
    /\ g_modules' = o.G.modules
    /\ g_count' = o.G.count
    /\ g_initialized' = o.G.initialized
    /\ m_op' = op /\ m_arg' = arg /\ m_ret' = o.ret /\ m_calls' = o.calls
    /\ UNCHANGED nonManagerVars

\* The module structures of the program, one for each name: one with all
\* four callbacks, and one for each callback with that callback NULL.
ModuleOps(name) ==
    [null |-> FALSE, name |-> name, init |-> name # "m2",
     start |-> name # "m3", stop |-> name # "m4", cleanup |-> name # "m5"]

\* The edr_module_ops_t pointers a caller passes: NULL, a structure with a
\* NULL name, or one of the module structures.
OpsInputs ==
    {NoOps, [NoOps EXCEPT !.null = FALSE]} \cup
    {ModuleOps(name) : name \in ModuleNames}

\* The results of the callback cb of the modules in the slots: a result is
\* drawn for every registered module that has the callback.
ResultsOfCallback(cb) ==
    {rs \in SlotResults :
        \A i \in 0 .. MAX_MODULES - 1 :
            (i >= g_count \/ ~g_modules[i].ops[cb]) => rs[i] = EDR_OK}

ManagerInit ==
    ManagerCall("init", NoName, edr_module_manager_init(ManagerState))

ManagerCleanup ==
    \E stop_rs \in ResultsOfCallback("stop") :
        ManagerCall("cleanup", NoName,
                    edr_module_manager_cleanup(ManagerState, stop_rs))

Register ==
    \E ops \in OpsInputs :
        ManagerCall("register", ops.name,
                    edr_module_register(ManagerState, ops))

Unregister ==
    \E name \in ModuleNames \cup {NoName}, stop_r \in CallbackResults :
        ManagerCall("unregister", name,
                    edr_module_unregister(ManagerState, name, stop_r))

StartAll ==
    \E init_rs \in ResultsOfCallback("init") :
        \E start_rs \in ResultsOfCallback("start") :
            ManagerCall("start_all", NoName,
                        edr_module_start_all(ManagerState, init_rs, start_rs))

StopAll ==
    \E stop_rs \in ResultsOfCallback("stop") :
        ManagerCall("stop_all", NoName,
                    edr_module_stop_all(ManagerState, stop_rs))

NextManager ==
    \/ ManagerInit
    \/ ManagerCleanup
    \/ Register
    \/ Unregister
    \/ StartAll
    \/ StopAll

SpecManager == Init /\ [][NextManager]_vars

\* ---------------------------------------------- claims: module manager
\* The slots in use.
UsedSlots == 0 .. g_count - 1

\* The slot of the registered module of the name.
SlotOf(name) == CHOOSE i \in UsedSlots : g_modules[i].ops.name = name

\* The callbacks of the log q are made in the order of the slots (upward if
\* dir = 1, downward if dir = -1), and for one module in the order first
\* to second.
InSlotOrder(q, dir, first, second) ==
    \A a, b \in DOMAIN q :
        a < b =>
            \/ dir * SlotOf(q[a][2]) < dir * SlotOf(q[b][2])
            \/ /\ q[a][2] = q[b][2]
               /\ q[a][1] = first /\ q[b][1] = second

\* The names of the modules the log q has a call of cb for.
Called(q, cb) == {q[a][2] : a \in {b \in DOMAIN q : q[b][1] = cb}}

\* A step that is a call of edr_module_start_all, of edr_module_stop_all.
StartAllStep == m_op' = "start_all"
StopAllStep == m_op' = "stop_all"

\* C32: edr_module_start_all makes the init and start callbacks in
\* registration order, init before start for each module, and if it
\* returns EDR_OK every registered module that has the callback is
\* initialized and running; edr_module_stop_all calls stop for exactly the
\* running modules that have a stop callback, in the reverse of the
\* registration order, and when it returns no module that has a stop
\* callback is marked running, whatever the callbacks returned.
C32_LifecycleOrder ==
    [][/\ StartAllStep =>
             /\ InSlotOrder(m_calls', 1, "init", "start")
             /\ m_ret' = EDR_OK =>
                   \A i \in UsedSlots :
                       /\ g_modules[i].ops.init => g_modules'[i].initialized
                       /\ g_modules[i].ops.start => g_modules'[i].running
       /\ StopAllStep =>
             /\ InSlotOrder(m_calls', -1, "stop", "none")
             /\ Len(m_calls') = Cardinality(Called(m_calls', "stop"))
             /\ Called(m_calls', "stop") =
                   {g_modules[i].ops.name : i \in
                       {j \in UsedSlots :
                           g_modules[j].running /\ g_modules[j].ops.stop}}
             /\ \A i \in UsedSlots :
                   g_modules'[i].ops.stop => ~g_modules'[i].running
      ]_vars

\* edr_module_stop_all stopped the running modules of a full table, the
\* later registered first; a stop callback failed, and a module without a
\* stop callback is still marked running.
C32_Witness ==
    /\ m_op = "stop_all" /\ g_count = MAX_MODULES
    /\ Len(m_calls) >= 2
    /\ SlotOf(m_calls[1][2]) > SlotOf(m_calls[2][2])
    /\ \E a \in DOMAIN m_calls : m_calls[a][3] # EDR_OK
    /\ m_ret # EDR_OK
    /\ \E i \in UsedSlots : ~g_modules[i].ops.stop /\ g_modules[i].running
    /\ \A i \in UsedSlots : g_modules[i].ops.stop => ~g_modules[i].running

\* The names of the modules a callback of which failed in the log q.
Failed(q) == {q[a][2] : a \in {b \in DOMAIN q : q[b][3] # EDR_OK}}

\* C33: when init or start of a module fails during edr_module_start_all,
\* that module is not marked running (and after a failed init it is not
\* marked initialized and its start is not called), every other registered
\* module is initialized and running as far as it has the callbacks, and
\* edr_module_start_all returns an error code.
C33_FailureIsolated ==
    [][StartAllStep =>
          /\ \A i \in UsedSlots :
                LET e == g_modules'[i]
                IN  IF e.ops.name \in Failed(m_calls')
                    THEN /\ ~e.running
                         /\ <<"init", e.ops.name, EDR_ERR_UNKNOWN>> \in
                               {m_calls'[a] : a \in DOMAIN m_calls'} =>
                               /\ ~e.initialized
                               /\ e.ops.name \notin Called(m_calls', "start")
                    ELSE /\ e.ops.init => e.initialized
                         /\ e.ops.start => e.running
          /\ Failed(m_calls') # {} => m_ret' # EDR_OK
      ]_vars

\* edr_module_start_all returned an error: the init of the module
\* registered first failed, the start of the second failed, and the third
\* was initialized and started.
C33_Witness ==
    /\ m_op = "start_all" /\ g_count = MAX_MODULES /\ m_ret # EDR_OK
    /\ m_calls[1] = <<"init", g_modules[0].ops.name, EDR_ERR_UNKNOWN>>
    /\ g_modules[1].ops.name \in Failed(m_calls)
    /\ g_modules[1].initialized /\ ~g_modules[1].running
    /\ g_modules[2].initialized /\ g_modules[2].running
    /\ ~g_modules[0].initialized /\ ~g_modules[0].running

\* The registered modules in order, as entries.
Entries(mods, cnt) == [k \in 1 .. cnt |-> mods[k - 1]]

\* The sequence q without its element at the slot index.
Removed(q, index) == SubSeq(q, 1, index) \o SubSeq(q, index + 2, Len(q))

\* The callbacks of the log q, without their results.
CallsOf(q) == [a \in DOMAIN q |-> <<q[a][1], q[a][2]>>]

\* A step that is a call of edr_module_unregister.
UnregisterStep == m_op' = "unregister"

\* What edr_module_unregister(m_arg') does in this step: for the name of a
\* registered module, one stop if the module ran, then one cleanup if it
\* was initialized (as far as it has the callbacks), EDR_OK, one module
\* less, the name no longer found, and the other entries as they were, in
\* their order; for another name, EDR_ERR_INVALID_PARAM and no change.
UnregisterEffect ==
    LET index == find_module_index(ManagerState, m_arg')
        e == g_modules[index]
        G1 == [modules |-> g_modules', count |-> g_count',
               initialized |-> g_initialized']
    IN  IF index >= 0
        THEN /\ CallsOf(m_calls') =
                  (IF e.running /\ e.ops.stop
                   THEN <<<<"stop", m_arg'>>>> ELSE <<>>) \o
                  (IF e.initialized /\ e.ops.cleanup
                   THEN <<<<"cleanup", m_arg'>>>> ELSE <<>>)
             /\ m_ret' = EDR_OK
             /\ edr_module_count(G1) = edr_module_count(ManagerState) - 1
             /\ edr_module_get(G1, m_arg') = NoOps
             /\ Entries(g_modules', g_count') =
                  Removed(Entries(g_modules, g_count), index)
        ELSE /\ m_ret' = EDR_ERR_INVALID_PARAM
             /\ m_calls' = <<>>
             /\ UNCHANGED <<g_modules, g_count, g_initialized>>

\* C34 as stated: every call of edr_module_unregister has the effect above,
\* so a call with a name that is not registered returns
\* EDR_ERR_INVALID_PARAM.
C34_Unregister == [][UnregisterStep => UnregisterEffect]_vars

\* C34, amended: every call of edr_module_unregister on an initialized
\* manager has the effect above; on a manager that is not initialized it
\* returns EDR_ERR_NOT_INITIALIZED and changes nothing.
C34_UnregisterInitialized ==
    [][UnregisterStep =>
          IF g_initialized THEN UnregisterEffect
          ELSE /\ m_ret' = EDR_ERR_NOT_INITIALIZED
               /\ m_calls' = <<>>
               /\ UNCHANGED <<g_modules, g_count, g_initialized>>
      ]_vars

\* A running, initialized module was unregistered from a full table: it
\* was stopped and then cleaned up, and the two modules left, one running
\* and one initialized but not running, fill the first two slots.
C34_Witness ==
    /\ m_op = "unregister" /\ m_ret = EDR_OK
    /\ CallsOf(m_calls) = <<<<"stop", m_arg>>, <<"cleanup", m_arg>>>>
    /\ g_count = MAX_MODULES - 1
    /\ g_modules[0].running
    /\ g_modules[1].initialized /\ ~g_modules[1].running
    /\ g_modules[1].ops.start
    /\ g_modules[MAX_MODULES - 1] = ZeroModule

(***************************************************************************)
(* Part 9: a monitoring thread that calls event_buffer_get_stats           *)
(* (collector/event_buffer.c) with all four output pointers set, while the *)
(* producer and the consumer of Part 1 run.  Each read of a field of the   *)
(* queue is one action.                                                    *)
(***************************************************************************)

\* What the monitoring thread leaves alone, but for its own variables.
nonMonitorVars == <<bufVars, prodVars, consVars, histVars, cacheVars, osVars,
                    lookupVars, cbVars, sessVars, etwVars, callVars,
                    restartVars, colVars, ringVars, mmVars>>

\* event_buffer_get_stats(buffer, ...): a NULL buffer returns at once; else
\* total_pushed is read into *out_total_pushed (lines 199-203).
StatsBegin(buffer_null) ==
    /\ mon_pc = "idle"
    /\ stats_calls < MaxStatsCalls
    /\ stats_calls' = stats_calls + 1
    /\ IF buffer_null
       THEN UNCHANGED <<mon_pc, mon_pushed, mon_max>>
       ELSE /\ mon_pushed' = total_pushed
            /\ mon_max' = Occupancy(write_pos, read_pos)
            /\ mon_pc' = "popped"
    /\ UNCHANGED <<nonMonitorVars, mon_popped, mon_dropped, mon_w, mon_r,
                   mon_usage, mon_percent>>

StatsCall == \E buffer_null \in BOOLEAN : StatsBegin(buffer_null)

\* total_popped is read into *out_total_popped (lines 205-209).
StatsPopped ==
    /\ mon_pc = "popped"
    /\ mon_popped' = total_popped
    /\ mon_pc' = "dropped"
    /\ UNCHANGED <<nonMonitorVars, mon_pushed, mon_dropped, mon_w, mon_r,
                   mon_usage, mon_percent, stats_calls, mon_max>>

\* dropped_count is read into *out_dropped (lines 211-215).
StatsDropped ==
    /\ mon_pc = "dropped"
    /\ mon_dropped' = dropped_count
    /\ mon_pc' = "usage_w"
    /\ UNCHANGED <<nonMonitorVars, mon_pushed, mon_popped, mon_w, mon_r,
                   mon_usage, mon_percent, stats_calls, mon_max>>

\* event_buffer_get_usage: w = buffer->write_pos (event_buffer.h:175).
StatsUsageW ==
    /\ mon_pc = "usage_w"
    /\ mon_w' = write_pos
    /\ mon_pc' = "usage_r"
    /\ UNCHANGED <<nonMonitorVars, mon_pushed, mon_popped, mon_dropped, mon_r,
                   mon_usage, mon_percent, stats_calls, mon_max>>

\* The percentage event_buffer_get_stats stores (line 219).
UsagePercent(u) == (u * 100) \div EVENT_BUFFER_SIZE

\* event_buffer_get_usage: r = buffer->read_pos and the usage of w and r;
\* *out_usage_percent is stored and the call returns (lines 217-220).
StatsUsageR ==
    /\ mon_pc = "usage_r"
    /\ mon_r' = read_pos
    /\ mon_usage' = event_buffer_get_usage(mon_w, read_pos)
    /\ mon_percent' = UsagePercent(event_buffer_get_usage(mon_w, read_pos))
    /\ mon_pc' = "idle"
    /\ UNCHANGED <<nonMonitorVars, mon_pushed, mon_popped, mon_dropped, mon_w,
                   stats_calls, mon_max>>

StatsNext ==
    \/ StatsCall
    \/ StatsPopped
    \/ StatsDropped
    \/ StatsUsageW
    \/ StatsUsageR

\* The steps of the producer while it is monitored: it makes at most
\* MaxMonitoredPushes calls.
MonitoredPush == PushNext /\ push_calls' <= MaxMonitoredPushes

NextMonitor == MonitoredPush \/ PopNext \/ BatchNext \/ StatsNext

SpecMonitor == Init /\ [][NextMonitor]_vars

\* ------------------------------------------ claims: monitoring thread
\* C37: while the producer and the consumer are active, at every instant
\* total_popped <= total_pushed, and so are the two values one call of
\* event_buffer_get_stats hands to the monitoring thread.
C37_CounterOrder ==
    /\ total_popped <= total_pushed
    /\ mon_pc # "popped" => mon_popped <= mon_pushed

\* C38: the usage event_buffer_get_stats derived from write_pos and read_pos
\* is at most the largest number of events that were in the queue at one
\* time between the start and the end of the call.
C38_UsageSnapshot ==
    (mon_pc = "idle" /\ stats_calls > 0) => mon_usage <= mon_max

====
